---- MODULE Spec2Model ----
(***************************************************************************)
(* Model of the PDF ingestion jobs of pdf-extractor-with-regex:            *)
(*   - PDFTableExtractor.start  (src/src/table_pdf_extractor.py)           *)
(*   - PDFTextExtractor.start   (src/src/extractor_text_pdf.py)            *)
(* together with the pandas table operations the jobs apply.               *)
(*                                                                         *)
(* A character is a TLA+ string naming it (ASCII characters name           *)
(* themselves, "a_tilde" names U+00E3, ...).  A Python str is a sequence   *)
(* of characters.  A DataFrame is a record                                 *)
(*     [none |-> BOOLEAN, columns |-> Seq(Label), rows |-> Seq(Seq(Cell))] *)
(* in which every row has Len(columns) cells; none = TRUE is Python None.  *)
(***************************************************************************)
EXTENDS Integers, Sequences, FiniteSets, TLC

(***************************************************************************)
(* Bounds of the model.                                                    *)
(***************************************************************************)
\* the largest number of table fragments one detection call returns
MaxFragments == 2
MaxCols == 2
MaxRows == 3

(***************************************************************************)
(* Python str values.                                                      *)
(***************************************************************************)
S_insertion_date == <<"i","n","s","e","r","t","i","o","n","_","d","a","t","e">>
S_fatura_        == <<"f","a","t","u","r","a","_">>
S__small         == <<"_","s","m","a","l","l">>
S_default_main   == <<"d","e","f","a","u","l","t","_","m","a","i","n">>
S_default_small  == <<"d","e","f","a","u","l","t","_","s","m","a","l","l">>
S_pdf_text       == <<"p","d","f","_","t","e","x","t">>
S_nan            == <<"n","a","n">>

UpperCase == <<"A","B","C","D","E","F","G","H","I","J","K","L","M",
               "N","O","P","Q","R","S","T","U","V","W","X","Y","Z">>
LowerCase == <<"a","b","c","d","e","f","g","h","i","j","k","l","m",
               "n","o","p","q","r","s","t","u","v","w","x","y","z">>
Digits    == <<"0","1","2","3","4","5","6","7","8","9">>

Range(s) == {s[i] : i \in DOMAIN s}

\* str.lower() of one ASCII character
LowerChar(c) ==
    IF \E i \in DOMAIN UpperCase : UpperCase[i] = c
    THEN LowerCase[CHOOSE i \in DOMAIN UpperCase : UpperCase[i] = c]
    ELSE c

\* str.lower()
Lower(s) == [i \in DOMAIN s |-> LowerChar(s[i])]

(***************************************************************************)
(* Labels and cells.  A column label is an int (the RangeIndex labels of a *)
(* freshly detected table) or a str.  A cell is a str, NaN (a hole left by *)
(* a concatenation) or the normalised timestamp of today.                  *)
(***************************************************************************)
IntLabel(n) == [int |-> TRUE,  n |-> n, s |-> <<>>]
StrLabel(s) == [int |-> FALSE, n |-> 0, s |-> s]

NaN   == <<"<NaN>">>
Today == <<"<today>">>

\* str(col) of a label
LabelStr(l) == IF l.int THEN <<Digits[l.n + 1]>> ELSE l.s

\* astype(str) of a cell
CellStr(c) == IF c = NaN THEN S_nan ELSE c

(***************************************************************************)
(* DataFrames.                                                             *)
(***************************************************************************)
None == [none |-> TRUE, columns |-> <<>>, rows |-> <<>>]

DF(cols, rows) == [none |-> FALSE, columns |-> cols, rows |-> rows]

\* pd.DataFrame(): no columns, no rows
EmptyDataFrame == DF(<<>>, <<>>)

\* DataFrame.empty: some axis has length 0
Empty(df) == Len(df.columns) = 0 \/ Len(df.rows) = 0

\* the table a detection returns: RangeIndex labels 0..n-1 over the cells
RawTable(rows) ==
    DF([i \in 1..(IF rows = <<>> THEN 0 ELSE Len(rows[1])) |-> IntLabel(i - 1)], rows)

\* s without the elements at the positions in drop
RECURSIVE RemoveAt(_, _, _)
RemoveAt(s, drop, i) ==
    IF i > Len(s) THEN <<>>
    ELSE (IF i \in drop THEN <<>> ELSE <<s[i]>>) \o RemoveAt(s, drop, i + 1)

HasDuplicates(s) == \E i, j \in DOMAIN s : i # j /\ s[i] = s[j]

(***************************************************************************)
(* PDFTableExtractor.fix_header (static method).                           *)
(***************************************************************************)
\* mutant: the first column is kept
fix_header_KeepsFirst(df) ==
    IF Empty(df) THEN df
    ELSE IF Len(df.rows) < 2 THEN df
    ELSE DF([i \in DOMAIN df.columns |-> StrLabel(CellStr(df.rows[1][i]))], Tail(df.rows))

\* mutant: the row guard is `< 1`, so a table of one row is reshaped
fix_header_OneRow(df) ==
    IF Empty(df) THEN df
    ELSE LET new_columns == [i \in DOMAIN df.columns |-> StrLabel(CellStr(df.rows[1][i]))]
             body == Tail(df.rows)
             drop == {i \in DOMAIN new_columns : new_columns[i] = new_columns[1]}
         IN  DF(RemoveAt(new_columns, drop, 1),
                [r \in DOMAIN body |-> RemoveAt(body[r], drop, 1)])

fix_header(df) ==
    IF Empty(df) THEN df
    ELSE IF Len(df.rows) < 2 THEN df
    ELSE LET \* new_columns = df.iloc[0].astype(str)
             new_columns == [i \in DOMAIN df.columns |-> StrLabel(CellStr(df.rows[1][i]))]
             \* df = df[1:].copy(); df.columns = new_columns
             body == Tail(df.rows)
         IN  IF Len(new_columns) > 0
             THEN LET col_to_drop == new_columns[1]
                      \* DataFrame.drop(columns=[label]) drops every column so labelled
                      drop == {i \in DOMAIN new_columns : new_columns[i] = col_to_drop}
                  IN  DF(RemoveAt(new_columns, drop, 1),
                         [r \in DOMAIN body |-> RemoveAt(body[r], drop, 1)])
             ELSE DF(new_columns, body)

(***************************************************************************)
(* pd.concat(frames, ignore_index=True): the frames stacked in order over  *)
(* the union of their columns (first appearance first), NaN where a frame  *)
(* lacks a column.  Frames whose columns differ cannot be aligned when one *)
(* of them has a repeated label: pandas raises InvalidIndexError.          *)
(***************************************************************************)
SameColumns(frames) == \A i, j \in DOMAIN frames : frames[i].columns = frames[j].columns

ConcatRaises(frames) ==
    /\ ~SameColumns(frames)
    /\ \E i \in DOMAIN frames : HasDuplicates(frames[i].columns)

RECURSIVE UnionColumns(_, _)
UnionColumns(frames, acc) ==
    IF frames = <<>> THEN acc
    ELSE LET cols == Head(frames).columns
             fresh == RemoveAt(cols, {i \in DOMAIN cols : cols[i] \in Range(acc)}, 1)
         IN  UnionColumns(Tail(frames), acc \o fresh)

\* the rows of frame re-laid over the columns cols
Reindex(frame, cols) ==
    [r \in DOMAIN frame.rows |->
        [c \in DOMAIN cols |->
            IF \E i \in DOMAIN frame.columns : frame.columns[i] = cols[c]
            THEN frame.rows[r][CHOOSE i \in DOMAIN frame.columns : frame.columns[i] = cols[c]]
            ELSE NaN]]

RECURSIVE StackRows(_, _)
StackRows(frames, cols) ==
    IF frames = <<>> THEN <<>>
    ELSE Reindex(Head(frames), cols) \o StackRows(Tail(frames), cols)

RECURSIVE AppendRows(_)
AppendRows(frames) ==
    IF frames = <<>> THEN <<>> ELSE Head(frames).rows \o AppendRows(Tail(frames))

concat(frames) ==
    IF SameColumns(frames)
    THEN DF(frames[1].columns, AppendRows(frames))
    ELSE LET cols == UnionColumns(frames, <<>>)
         IN  DF(cols, StackRows(frames, cols))

(***************************************************************************)
(* df[label] = value: every column so labelled is overwritten, or a new    *)
(* last column is added.                                                   *)
(***************************************************************************)
SetColumn(df, label, value) ==
    IF \E i \in DOMAIN df.columns : df.columns[i] = label
    THEN DF(df.columns,
            [r \in DOMAIN df.rows |->
                [c \in DOMAIN df.columns |->
                    IF df.columns[c] = label THEN value ELSE df.rows[r][c]]])
    ELSE DF(Append(df.columns, label),
            [r \in DOMAIN df.rows |-> Append(df.rows[r], value)])

(***************************************************************************)
(* PDFTableExtractor.add_header_info                                       *)
(***************************************************************************)
add_header_info(header_df, content_df) ==
    IF header_df.none \/ Empty(header_df)
    THEN SetColumn(content_df, StrLabel(S_insertion_date), Today)
    ELSE IF Empty(content_df)
    THEN DF(Append(header_df.columns, StrLabel(S_insertion_date)), <<>>)
    ELSE LET header_info_row == header_df.rows[1]
             \* pd.concat([content, header_info], axis=1)
             combined_df == DF(content_df.columns \o header_df.columns,
                               [r \in DOMAIN content_df.rows |->
                                   content_df.rows[r] \o header_info_row])
         IN  SetColumn(combined_df, StrLabel(S_insertion_date), Today)

(***************************************************************************)
(* PDFTableExtractor.sanitize_column_names                                 *)
(***************************************************************************)
\* unidecode of one character: its ASCII transliteration, a str
UnidecodeChar(c) ==
    CASE c = "a_tilde"   -> <<"a">>
      [] c = "A_tilde"   -> <<"A">>
      [] c = "c_cedilla" -> <<"c">>
      [] c = "C_cedilla" -> <<"C">>
      [] c = "sharp_s"   -> <<"s","s">>
      [] c = "one_half"  -> <<" ","1","/","2">>
      [] c = "nbsp"      -> <<" ">>
      [] OTHER           -> <<c>>

RECURSIVE unidecode(_)
unidecode(s) == IF s = <<>> THEN <<>> ELSE UnidecodeChar(Head(s)) \o unidecode(Tail(s))

\* str.replace(" ", "_")
SpaceToUnderscore(s) == [i \in DOMAIN s |-> IF s[i] = " " THEN "_" ELSE s[i]]

NonAsciiLetters == {"a_tilde", "A_tilde", "c_cedilla", "C_cedilla", "sharp_s"}

\* the characters the regular expression \w matches
IsWord(c) == c \in Range(UpperCase) \cup Range(LowerCase) \cup Range(Digits)
                    \cup {"_"} \cup NonAsciiLetters \cup {"one_half"}

\* Series.str.replace(r"[^\w]+", "", regex=True)
StripNonWord(s) == RemoveAt(s, {i \in DOMAIN s : ~IsWord(s[i])}, 1)

\* mutant: the transliteration comes after the stripping
SanitizeLabel_UnidecodeLast(col) ==
    StrLabel(Lower(unidecode(StripNonWord(SpaceToUnderscore(LabelStr(col))))))

\* mutant: the label is not lowercased
SanitizeLabel_NoLower(col) ==
    StrLabel(StripNonWord(SpaceToUnderscore(unidecode(LabelStr(col)))))

SanitizeLabel(col) ==
    StrLabel(Lower(StripNonWord(SpaceToUnderscore(unidecode(LabelStr(col))))))

sanitize_column_names(df) ==
    IF Empty(df) THEN df
    ELSE DF([i \in DOMAIN df.columns |-> SanitizeLabel(df.columns[i])], df.rows)

(***************************************************************************)
(* The extraction configuration handed to PDFTableExtractor (the value of  *)
(* rules_dict.get("jornada")): None, or a dict.  areas[z] and columns[z]   *)
(* are "None" (key absent), "empty" (an empty list) or "list"; fix[z] is   *)
(* the value configs.get("<z>_fix", True) yields.                          *)
(***************************************************************************)
Zones == {"header", "main", "small"}

S_Xp == <<"X","p">>

BaseConfig ==
    [isNone |-> FALSE, hasFlavor |-> TRUE, hasPages |-> TRUE,
     flavor |-> "stream",
     areas   |-> [z \in Zones |-> "list"],
     columns |-> [z \in Zones |-> "list"],
     fix     |-> [z \in Zones |-> TRUE],
     small_sanitize |-> TRUE,
     hasName |-> TRUE, name |-> S_Xp]

Configs ==
    { [BaseConfig EXCEPT !.isNone = TRUE],
      [BaseConfig EXCEPT !.hasFlavor = FALSE],
      [BaseConfig EXCEPT !.hasPages = FALSE],
      BaseConfig,
      [BaseConfig EXCEPT !.flavor = "lattice",
                         !.areas = [z \in Zones |-> IF z = "main" THEN "list" ELSE "None"],
                         !.columns = [z \in Zones |-> IF z = "small" THEN "empty" ELSE "None"],
                         !.fix = [z \in Zones |-> z = "main"],
                         !.small_sanitize = FALSE,
                         !.hasName = FALSE],
      [BaseConfig EXCEPT !.areas = [z \in Zones |-> IF z = "header" THEN "list" ELSE "None"],
                         !.columns = [z \in Zones |-> IF z = "header" THEN "empty" ELSE "None"],
                         !.fix = [z \in Zones |-> z # "main"]] }

(***************************************************************************)
(* What table detection (camelot.read_pdf) may do on one call: raise, or   *)
(* return a list of tables.  The tables are drawn from Fragments; a list   *)
(* of n of them starts at any fragment and repeats it or steps cyclically. *)
(***************************************************************************)
S_Pa == <<"P","a">>
S_Qt == <<"Q","t">>
S_x1 == <<"x","1">>
S_y1 == <<"y","1">>
S_y2 == <<"y","2">>

Fragments ==
    << RawTable(<< <<S_Pa, S_Qt>>, <<S_x1, S_y1>> >>),
       RawTable(<< <<S_Qt>>, <<S_y2>> >>),
       RawTable(<< <<S_Pa, S_Pa>>, <<S_x1, S_y1>>, <<S_x1, S_y2>> >>),
       RawTable(<< <<S_x1, S_y1>> >>) >>

FragmentLists ==
    { [i \in 1..n |-> Fragments[((k + (i - 1) * d) % Len(Fragments)) + 1]] :
        n \in 1..MaxFragments, k \in 0..(Len(Fragments) - 1), d \in {0, 1} }

\* the two tables of a brokerage note: the client header and the operations
S_Cliente == <<"C","l","i","e","n","t","e">>
S_Conta   == <<"C","o","n","t","a">>
S_Joao    == <<"J","o","a_tilde","o">>
S_123     == <<"1","2","3">>
S_Papel   == <<"P","a","p","e","l">>
S_Qtd     == <<"Q","t","d">>
S_PETR4   == <<"P","E","T","R","4">>
S_100     == <<"1","0","0">>

NoteHeader == RawTable(<< <<S_Cliente, S_Conta>>, <<S_Joao, S_123>> >>)
NoteMain   == RawTable(<< <<S_Papel, S_Qtd>>, <<S_PETR4, S_100>> >>)

Detections ==
    { [raises |-> TRUE, tables |-> <<>>], [raises |-> FALSE, tables |-> <<>>] }
    \cup { [raises |-> FALSE, tables |-> l] : l \in FragmentLists }

\* what the detection call of a zone may do.  The header zone holds at most
\* one table, which may be the note's header table; the main zone may hold
\* the note's operations table.
DetectionsAt(zone) ==
    IF zone = "header"
    THEN { d \in Detections : Len(d.tables) <= 1 }
         \cup { [raises |-> FALSE, tables |-> <<NoteHeader>>] }
    ELSE Detections
         \cup (IF zone = "main" THEN { [raises |-> FALSE, tables |-> <<NoteMain>>] }
               ELSE {})

(***************************************************************************)
(* PDFTableExtractor.get_table_data: the keyword arguments of the          *)
(* detection call.  The dict is built twice; the second assignment         *)
(* replaces the first.                                                     *)
(***************************************************************************)
Truthy(list) == list = "list"

camelot_args_first(table_areas, table_columns, flavor) ==
    [flavor |-> flavor,
     columns |-> IF flavor = "stream" /\ Truthy(table_columns) THEN table_columns ELSE "unset",
     table_areas |-> IF flavor \in {"stream", "lattice"} /\ Truthy(table_areas)
                     THEN table_areas ELSE "unset"]

\* mutant: the second construction (lines 192-201) is missing
camelot_args_FirstOnly(table_areas, table_columns, flavor) ==
    [flavor |-> flavor,
     columns |-> IF flavor = "stream" /\ table_columns = "list" THEN table_columns ELSE "unset",
     table_areas |-> IF flavor \in {"stream", "lattice"} /\ table_areas = "list"
                     THEN table_areas ELSE "unset"]

camelot_args(table_areas, table_columns, flavor) ==
    [flavor |-> flavor,
     columns |-> IF table_columns # "None" THEN table_columns ELSE "unset",
     table_areas |-> IF table_areas # "None" THEN table_areas ELSE "unset"]

\* mutant: the header fix is applied once, to the concatenated table
TableContent_FixAfter(tables, fix) ==
    IF tables = <<>> THEN None
    ELSE IF ConcatRaises(tables) THEN None
    ELSE IF fix THEN fix_header(concat(tables)) ELSE concat(tables)

\* lines 214-227: the per-fragment header fix and the concatenation
TableContent(tables, fix) ==
    LET table_content_list ==
            [i \in DOMAIN tables |-> IF fix THEN fix_header(tables[i]) ELSE tables[i]]
    IN  IF table_content_list = <<>> THEN None
        ELSE IF ConcatRaises(table_content_list) THEN None   \* except Exception: return None
        ELSE concat(table_content_list)

\* the value get_table_data returns when detection does `detected`
get_table_data(exists, fix, detected) ==
    IF ~exists THEN None
    ELSE IF detected.raises THEN None
    ELSE IF Len(detected.tables) = 0 THEN None
    ELSE TableContent(detected.tables, fix)

(***************************************************************************)
(* The text of a PDF, as PyPDF2 extracts it: a sequence of lines, a line a *)
(* sequence of whitespace-separated words, a word a str.                   *)
(***************************************************************************)
W_CV      == <<"C","/","V">>
W_Posicao == <<"P","o","s","i","c_cedilla","a_tilde","o">>
W_Ajuste  == <<"A","j","u","s","t","e">>
W_Nota    == <<"N","o","t","a">>
W_C       == <<"C">>
W_10      == <<"1","0">>

\* "Pattern not found."
PatternNotFound == << << <<"P","a","t","t","e","r","n">>, <<"n","o","t">>,
                         <<"f","o","u","n","d",".">> >> >>

Texts ==
    { << <<W_Nota>> >>,
      << <<W_Nota>>, <<W_Nota, W_CV, S_Qt>>, <<W_C, W_10>>, <<>>, <<W_Posicao, W_Ajuste>> >>,
      << <<W_CV, S_Qt>>, <<W_Posicao, W_Ajuste>>, <<W_Nota>> >>,
      << <<W_CV, S_Qt>>, <<W_C, W_10, W_Nota>>, <<W_Posicao, W_Ajuste>> >>,
      << <<W_CV, S_Qt>>, <<W_C>>, <<W_C, W_10>>, <<W_Posicao, W_Ajuste>> >>,
      << <<W_Posicao, W_Ajuste>>, <<W_CV, S_Qt>>, <<W_C, W_10>> >> }

\* the words of line from position j on
WordsFrom(line, j) == [k \in 1..(Len(line) - j + 1) |-> line[j + k - 1]]

\* the line starts with "Posição Ajuste"
IsMarker(line) == Len(line) >= 2 /\ line[1] = W_Posicao /\ line[2] = W_Ajuste

(***************************************************************************)
(* PDFTextExtractor.extract_operations: re.search of                       *)
(* (C/V.*?)(?=\nPosição Ajuste) with DOTALL: from the first "C/V" after    *)
(* which a line starts with the marker, up to the first such line.         *)
(***************************************************************************)
extract_operations(text) ==
    LET places == UNION { {<<i, j>> : j \in DOMAIN text[i]} : i \in DOMAIN text }
        starts == { p \in places :
                       /\ text[p[1]][p[2]] = W_CV
                       /\ \E k \in DOMAIN text : k > p[1] /\ IsMarker(text[k]) }
    IN  IF starts = {} THEN PatternNotFound
        ELSE LET st == CHOOSE p \in starts :
                          \A q \in starts : p[1] < q[1] \/ (p[1] = q[1] /\ p[2] <= q[2])
                 end == CHOOSE k \in DOMAIN text :
                          /\ k > st[1] /\ IsMarker(text[k])
                          /\ \A m \in DOMAIN text : (m > st[1] /\ IsMarker(text[m])) => k <= m
             IN  [n \in 1..(end - st[1]) |->
                    IF n = 1 THEN WordsFrom(text[st[1]], st[2]) ELSE text[st[1] + n - 1]]

\* PDFTextExtractor.split_text_by_newline (the text is already held as lines)
split_text_by_newline(text) == IF text # <<>> THEN text ELSE <<>>

Max(S) == CHOOSE x \in S : \A y \in S : y <= x

\* [line.split() for line in operations_text_list[1:] if line]
DataRows(operations_text_list) ==
    LET rest == Tail(operations_text_list)
    IN  RemoveAt(rest, {i \in DOMAIN rest : rest[i] = <<>>}, 1)

\* pd.DataFrame(data, columns=header) raises ValueError: the widest row and the
\* header differ in length
DataFrameRaises(operations_text_list) ==
    /\ operations_text_list # <<>>
    /\ LET data == DataRows(operations_text_list)
       IN  /\ data # <<>>
           /\ Max({Len(data[i]) : i \in DOMAIN data}) # Len(operations_text_list[1])

\* text_to_dataframe with the first line kept as a data row as well
text_to_dataframe_HeaderAsRow(operations_text_list) ==
    IF operations_text_list = <<>> THEN EmptyDataFrame
    ELSE LET header == operations_text_list[1]
         IN  DF([i \in DOMAIN header |-> StrLabel(header[i])], <<header>>)

(***************************************************************************)
(* PDFTextExtractor.text_to_dataframe                                      *)
(***************************************************************************)
text_to_dataframe(operations_text_list) ==
    IF operations_text_list = <<>> THEN EmptyDataFrame
    ELSE LET header == operations_text_list[1]
             data == DataRows(operations_text_list)
         IN  DF([i \in DOMAIN header |-> StrLabel(header[i])],
                [r \in DOMAIN data |->
                    [c \in DOMAIN header |->
                        IF c <= Len(data[r]) THEN data[r][c] ELSE NaN]])

(***************************************************************************)
(* The tables a lone send_to_db call is given.                             *)
(***************************************************************************)
LoneTables ==
    { EmptyDataFrame,
      DF(<<StrLabel(S_Pa), StrLabel(S_Qt)>>, <<>>),
      DF(<<>>, << <<>>, <<>> >>),
      DF(<<StrLabel(S_Pa)>>, << <<S_x1>> >>),
      DF(<<IntLabel(0), IntLabel(1)>>, << <<S_x1, S_y1>>, <<S_x1, S_y2>> >>) }

(***************************************************************************)
(* What the database may do on one send_to_db call.                        *)
(***************************************************************************)
DbOutcomes == {"ok", "manager_raises", "to_sql_raises"}

(***************************************************************************)
(* State.                                                                  *)
(***************************************************************************)
VARIABLES
    job,             \* "table": PDFTableExtractor.start; "text": PDFTextExtractor.start;
                     \* "send_table", "send_text": one send_to_db call on its own
    pc,              \* the position in the job
    bucket,          \* os.getenv("AWS_BUCKET") is set
    configs,         \* self.configs
    fileExists,      \* os.path.exists(self.download_path)
    file_downloaded, \* the local of start
    header_df,
    main_df,
    small_df,
    text_downloaded, \* history: download_file of the text job fetched the file
    text_lines,      \* extracted_text_list of PDFTextExtractor.start
    dataframe,       \* dataframe of PDFTextExtractor.start; the argument of a lone call
    sink,            \* the to_sql appends that succeeded: <<[table_name, df]>>
    engines,         \* SQLAlchemy engines: [created, disposed]
    db_failures,     \* history: how often the database raised inside send_to_db
    detections,      \* the camelot.read_pdf calls: <<[zone, args]>>
    removals,        \* the os.remove calls: <<"ok" | "OSError">>
    exc,             \* the exception propagating, "none" when none
    ret,             \* what start returned: "none" | "True" | "False"
    trace,           \* the steps taken, in order
    queue,           \* HTMLSQSListener: os.getenv("QUEUE_NAME") is set
    messages,        \* the messages receive_messages_from_queue returned
    cursor,          \* the place in `for message in messages`
    lpc,             \* the position in check_messages
    deleted,         \* the delete_message_from_queue calls: the messages' places, in order
    handed,          \* the extractors constructed: <<[msg, extractor, key]>>
    instance,        \* AWSS3._instance
    env,             \* which of the AWS_* environment variables are set
    attempts         \* the AWSS3() calls so far: <<[result, instance]>>

\* the variables of the two extractors and of the lone calls
extractorVars ==
    <<job, pc, bucket, configs, fileExists, file_downloaded, header_df, main_df,
      small_df, text_downloaded, text_lines, dataframe, sink, engines, db_failures,
      detections, removals, exc, ret, trace>>

\* the variables of HTMLSQSListener.check_messages
listenerVars == <<queue, messages, cursor, lpc, deleted, handed>>

\* the variables of AWSS3.__new__
s3Vars == <<instance, env, attempts>>

vars == <<extractorVars, listenerVars, s3Vars>>

\* the variables only PDFTextExtractor and the lone calls write
textVars == <<text_downloaded, text_lines, dataframe>>

\* the variables send_to_db writes
dbVars == <<sink, engines, db_failures>>

\* the variables only PDFTableExtractor.start writes
tableVars == <<configs, file_downloaded, header_df, main_df, small_df, detections>>

\* no AWSS3() call has been made: _instance = None (line 12)
NoInstance == [none |-> TRUE, access_key |-> FALSE, secret_key |-> FALSE, s3 |-> FALSE]

\* check_messages is not running
ListenerIdle ==
    /\ queue = FALSE /\ messages = <<>> /\ cursor = 0 /\ lpc = "idle"
    /\ deleted = <<>> /\ handed = <<>>

\* AWSS3 is not in use
S3Idle ==
    /\ instance = NoInstance
    /\ env = [access_key |-> FALSE, secret_key |-> FALSE, region |-> FALSE]
    /\ attempts = <<>>

Init ==
    /\ ListenerIdle /\ S3Idle
    /\ job \in {"table", "text", "send_table", "send_text"}
    /\ pc = "start"
    /\ bucket \in BOOLEAN
    /\ configs \in IF job = "table" THEN Configs ELSE {BaseConfig}
    /\ fileExists \in BOOLEAN
    /\ file_downloaded = FALSE
    /\ header_df = None
    /\ main_df = None
    /\ small_df = None
    /\ text_downloaded = FALSE
    /\ text_lines = <<>>
    /\ dataframe \in IF job \in {"send_table", "send_text"} THEN LoneTables ELSE {None}
    /\ sink = <<>>
    /\ engines = [created |-> 0, disposed |-> 0]
    /\ db_failures = 0
    /\ detections = <<>>
    /\ removals = <<>>
    /\ exc = "none"
    /\ ret = "none"
    /\ trace = <<>>

Step(name) == trace' = Append(trace, name)

Raise(e) == exc' = e /\ pc' = "except"

(***************************************************************************)
(* PDFTableExtractor.download_file, called at line 52; line 53 follows     *)
(* only when it returned.                                                  *)
(***************************************************************************)
DownloadNoBucket ==
    /\ job = "table" /\ pc = "start"
    /\ ~bucket
    /\ Raise("ValueError")
    /\ Step("download_failed")
    /\ UNCHANGED <<job, listenerVars, s3Vars, textVars, bucket, configs, fileExists, file_downloaded, header_df, main_df,
                   small_df, dbVars, detections, removals, ret>>

\* os.makedirs or open(local_file_path, "wb") raises: nothing was written
DownloadNoLocalFile ==
    /\ job = "table" /\ pc = "start"
    /\ bucket
    /\ Raise("Exception")
    /\ Step("download_failed")
    /\ UNCHANGED <<job, listenerVars, s3Vars, textVars, bucket, configs, fileExists, file_downloaded, header_df, main_df,
                   small_df, dbVars, detections, removals, ret>>

\* mutant: file_downloaded is set before download_file is called
DownloadTransferFails_FlagFirst ==
    /\ job = "table" /\ pc = "start"
    /\ bucket
    /\ fileExists' = TRUE
    /\ file_downloaded' = TRUE
    /\ Raise("Exception")
    /\ Step("download_failed")
    /\ UNCHANGED <<job, listenerVars, s3Vars, textVars, bucket, configs, header_df, main_df,
                   small_df, dbVars, detections, removals, ret>>

\* s3.download_fileobj raises after open() created the local file
DownloadTransferFails ==
    /\ job = "table" /\ pc = "start"
    /\ bucket
    /\ fileExists' = TRUE
    /\ Raise("Exception")
    /\ Step("download_failed")
    /\ UNCHANGED <<job, listenerVars, s3Vars, textVars, bucket, configs, file_downloaded, header_df, main_df,
                   small_df, dbVars, detections, removals, ret>>

DownloadOk ==
    /\ job = "table" /\ pc = "start"
    /\ bucket
    /\ fileExists' = TRUE
    /\ file_downloaded' = TRUE
    /\ pc' = "extract_header"
    /\ Step("download")
    /\ UNCHANGED <<job, listenerVars, s3Vars, textVars, bucket, configs, header_df, main_df,
                   small_df, dbVars, detections, removals, exc, ret>>

(***************************************************************************)
(* Lines 57-79: one get_table_data call of start.  Its arguments are       *)
(* evaluated first: configs.get(...) raises AttributeError on None, and    *)
(* configs["flavor"] / configs["pages"] raise KeyError on a missing key.   *)
(***************************************************************************)
\* mutant: the global keys are read with configs.get, which tolerates a missing key
ConfigUsable_Get == ~configs.isNone

ConfigUsable == ~configs.isNone /\ configs.hasFlavor /\ configs.hasPages

ExtractConfigError(zone) ==
    /\ job = "table" /\ pc = "extract_" \o zone
    /\ ~ConfigUsable
    /\ Raise(IF configs.isNone THEN "AttributeError" ELSE "KeyError")
    /\ UNCHANGED <<job, listenerVars, s3Vars, textVars, bucket, configs, fileExists, file_downloaded, header_df, main_df,
                   small_df, dbVars, detections, removals, ret, trace>>

\* the data frame variables after zone's extraction returned df
Extracted(zone, df) ==
    /\ header_df' = IF zone = "header" THEN df ELSE header_df
    /\ main_df'   = IF zone = "main"   THEN df ELSE main_df
    /\ small_df'  = IF zone = "small"  THEN df ELSE small_df

\* mutant: get_table_data lets the exception of the detection call escape
Extract_Propagates(zone, next) ==
    /\ job = "table" /\ pc = "extract_" \o zone
    /\ ConfigUsable
    /\ \E detected \in DetectionsAt(zone) :
          /\ Extracted(zone, get_table_data(fileExists, configs.fix[zone], detected))
          /\ detections' =
                Append(detections,
                       [zone |-> zone,
                        args |-> camelot_args(configs.areas[zone], configs.columns[zone],
                                              configs.flavor),
                        raised |-> detected.raises,
                        tables |-> detected.tables,
                        n |-> Len(detected.tables)])
          /\ IF detected.raises
             THEN Raise("Exception")
             ELSE pc' = next /\ UNCHANGED exc
    /\ Step("extract_" \o zone)
    /\ UNCHANGED <<job, listenerVars, s3Vars, textVars, bucket, configs, fileExists, file_downloaded,
                   dbVars, removals, ret>>

\* mutant: a zone with neither areas nor columns is skipped without detection
Extract_SkipsUnconfigured(zone, next) ==
    /\ job = "table" /\ pc = "extract_" \o zone
    /\ ConfigUsable
    /\ \E detected \in DetectionsAt(zone) :
          LET skipped == configs.areas[zone] = "None" /\ configs.columns[zone] = "None"
          IN  /\ Extracted(zone, IF skipped THEN None
                                 ELSE get_table_data(fileExists, configs.fix[zone], detected))
              /\ detections' =
                    IF skipped THEN detections
                    ELSE Append(detections,
                                [zone |-> zone,
                                 args |-> camelot_args(configs.areas[zone],
                                                       configs.columns[zone], configs.flavor),
                                 raised |-> detected.raises,
                                 tables |-> detected.tables,
                                 n |-> Len(detected.tables)])
    /\ pc' = next
    /\ Step("extract_" \o zone)
    /\ UNCHANGED <<job, listenerVars, s3Vars, textVars, bucket, configs, fileExists, file_downloaded,
                   dbVars, removals, exc, ret>>

Extract(zone, next) ==
    /\ job = "table" /\ pc = "extract_" \o zone
    /\ ConfigUsable
    /\ \E detected \in DetectionsAt(zone) :
          /\ Extracted(zone, get_table_data(fileExists, configs.fix[zone], detected))
          /\ detections' =
                IF fileExists
                THEN Append(detections,
                            [zone |-> zone,
                             args |-> camelot_args(configs.areas[zone], configs.columns[zone],
                                                   configs.flavor),
                             raised |-> detected.raises,
                             tables |-> detected.tables,
                             n |-> Len(detected.tables)])
                ELSE detections
    /\ pc' = next
    /\ Step("extract_" \o zone)
    /\ UNCHANGED <<job, listenerVars, s3Vars, textVars, bucket, configs, fileExists, file_downloaded,
                   dbVars, removals, exc, ret>>

ExtractHeader == Extract("header", "extract_main")
ExtractMain   == Extract("main", "extract_small")
ExtractSmall  == Extract("small", "merge_main")

ExtractError == \E zone \in Zones : ExtractConfigError(zone)

(***************************************************************************)
(* Lines 82-94: the main table.                                            *)
(***************************************************************************)
\* mutant: start returns as soon as there is no main table
SkipMain_Returns ==
    /\ job = "table" /\ pc = "merge_main"
    /\ main_df.none \/ Empty(main_df)
    /\ pc' = "return"
    /\ UNCHANGED <<job, listenerVars, s3Vars, textVars, bucket, configs, fileExists, file_downloaded, header_df,
                   main_df, small_df, dbVars, detections, removals, exc, ret, trace>>

SkipMain ==
    /\ job = "table" /\ pc = "merge_main"
    /\ main_df.none \/ Empty(main_df)
    /\ pc' = "merge_small"
    /\ UNCHANGED <<job, listenerVars, s3Vars, textVars, bucket, configs, fileExists, file_downloaded, header_df, main_df,
                   small_df, dbVars, detections, removals, exc, ret, trace>>

\* mutant: the merged main table is sent without being sanitized
MergeMain_SkipsSanitize ==
    /\ job = "table" /\ pc = "merge_main"
    /\ ~(main_df.none \/ Empty(main_df))
    /\ main_df' = add_header_info(header_df, main_df)
    /\ pc' = "persist_main"
    /\ Step("merge_main")
    /\ UNCHANGED <<job, listenerVars, s3Vars, textVars, bucket, configs, fileExists, file_downloaded, header_df,
                   small_df, dbVars, detections, removals, exc, ret>>

MergeMain ==
    /\ job = "table" /\ pc = "merge_main"
    /\ ~(main_df.none \/ Empty(main_df))
    /\ main_df' = add_header_info(header_df, main_df)
    /\ pc' = "sanitize_main"
    /\ Step("merge_main")
    /\ UNCHANGED <<job, listenerVars, s3Vars, textVars, bucket, configs, fileExists, file_downloaded, header_df,
                   small_df, dbVars, detections, removals, exc, ret>>

SanitizeMain ==
    /\ job = "table" /\ pc = "sanitize_main"
    /\ main_df' = sanitize_column_names(main_df)
    /\ pc' = "persist_main"
    /\ Step("sanitize_main")
    /\ UNCHANGED <<job, listenerVars, s3Vars, textVars, bucket, configs, fileExists, file_downloaded, header_df,
                   small_df, dbVars, detections, removals, exc, ret>>

\* f"fatura_{self.configs.get('name', 'default_main')}".lower()
main_table_name ==
    Lower(S_fatura_ \o (IF configs.hasName THEN configs.name ELSE S_default_main))

\* f"fatura_{self.configs.get('name', 'default_small')}_small".lower()
small_table_name ==
    Lower(S_fatura_ \o (IF configs.hasName THEN configs.name ELSE S_default_small)
                    \o S__small)

\* mutant: the except clause logs the database error and does not raise it again
send_to_db_Swallows(df, table_name, next) ==
    /\ pc' = next
    /\ UNCHANGED exc
    /\ IF Empty(df)
       THEN UNCHANGED <<sink, engines, db_failures>>
       ELSE \E outcome \in DbOutcomes :
               CASE outcome = "manager_raises" ->
                       /\ db_failures' = db_failures + 1
                       /\ UNCHANGED <<sink, engines>>
                 [] outcome = "to_sql_raises" ->
                       /\ engines' = [engines EXCEPT !.created = @ + 1]
                       /\ db_failures' = db_failures + 1
                       /\ UNCHANGED sink
                 [] outcome = "ok" ->
                       /\ engines' = [engines EXCEPT !.created = @ + 1]
                       /\ sink' = Append(sink, [table_name |-> table_name, df |-> df])
                       /\ UNCHANGED db_failures

\* mutant: no check for an empty table
send_to_db_NoEmptyCheck(df, table_name, next) ==
    \E outcome \in DbOutcomes :
        CASE outcome = "manager_raises" ->
                /\ db_failures' = db_failures + 1
                /\ Raise("ValueError")
                /\ UNCHANGED <<sink, engines>>
          [] outcome = "to_sql_raises" ->
                /\ engines' = [engines EXCEPT !.created = @ + 1]
                /\ db_failures' = db_failures + 1
                /\ Raise("Exception")
                /\ UNCHANGED sink
          [] outcome = "ok" ->
                /\ engines' = [engines EXCEPT !.created = @ + 1]
                /\ sink' = Append(sink, [table_name |-> table_name, df |-> df])
                /\ pc' = next
                /\ UNCHANGED <<db_failures, exc>>

(***************************************************************************)
(* PDFTableExtractor.send_to_db; start goes on at `next` when it returns.  *)
(***************************************************************************)
send_to_db(df, table_name, next) ==
    IF Empty(df)
    THEN /\ pc' = next
         /\ UNCHANGED <<sink, engines, db_failures, exc>>
    ELSE \E outcome \in DbOutcomes :
            CASE outcome = "manager_raises" ->
                    \* RDSPostgreSQLManager() raises ValueError: no engine yet
                    /\ db_failures' = db_failures + 1
                    /\ Raise("ValueError")     \* logged, then raise e
                    /\ UNCHANGED <<sink, engines>>
              [] outcome = "to_sql_raises" ->
                    /\ engines' = [engines EXCEPT !.created = @ + 1]
                    /\ db_failures' = db_failures + 1
                    /\ Raise("Exception")      \* logged, then raise e
                    /\ UNCHANGED sink
              [] outcome = "ok" ->
                    /\ engines' = [engines EXCEPT !.created = @ + 1]
                    /\ sink' = Append(sink, [table_name |-> table_name, df |-> df])
                    /\ pc' = next
                    /\ UNCHANGED <<db_failures, exc>>

PersistMain ==
    /\ job = "table" /\ pc = "persist_main"
    /\ send_to_db(main_df, main_table_name, "merge_small")
    /\ Step("persist_main")
    /\ UNCHANGED <<job, listenerVars, s3Vars, textVars, bucket, configs, fileExists, file_downloaded, header_df, main_df,
                   small_df, detections, removals, ret>>

(***************************************************************************)
(* Lines 97-110: the small table.                                          *)
(***************************************************************************)
SkipSmall ==
    /\ job = "table" /\ pc = "merge_small"
    /\ small_df.none \/ Empty(small_df)
    /\ pc' = "return"
    /\ UNCHANGED <<job, listenerVars, s3Vars, textVars, bucket, configs, fileExists, file_downloaded, header_df, main_df,
                   small_df, dbVars, detections, removals, exc, ret, trace>>

MergeSmall ==
    /\ job = "table" /\ pc = "merge_small"
    /\ ~(small_df.none \/ Empty(small_df))
    /\ small_df' = add_header_info(header_df, small_df)
    /\ pc' = IF configs.small_sanitize THEN "sanitize_small" ELSE "persist_small"
    /\ Step("merge_small")
    /\ UNCHANGED <<job, listenerVars, s3Vars, textVars, bucket, configs, fileExists, file_downloaded, header_df,
                   main_df, dbVars, detections, removals, exc, ret>>

\* mutant: the small table is sent as merged, whatever small_sanitize says
SanitizeSmall_Skips ==
    /\ job = "table" /\ pc = "sanitize_small"
    /\ pc' = "persist_small"
    /\ Step("sanitize_small")
    /\ UNCHANGED <<job, listenerVars, s3Vars, textVars, bucket, configs, fileExists, file_downloaded, header_df,
                   main_df, small_df, dbVars, detections, removals, exc, ret>>

SanitizeSmall ==
    /\ job = "table" /\ pc = "sanitize_small"
    /\ small_df' = sanitize_column_names(small_df)
    /\ pc' = "persist_small"
    /\ Step("sanitize_small")
    /\ UNCHANGED <<job, listenerVars, s3Vars, textVars, bucket, configs, fileExists, file_downloaded, header_df,
                   main_df, dbVars, detections, removals, exc, ret>>

PersistSmall ==
    /\ job = "table" /\ pc = "persist_small"
    /\ send_to_db(small_df, small_table_name, "return")
    /\ Step("persist_small")
    /\ UNCHANGED <<job, listenerVars, s3Vars, textVars, bucket, configs, fileExists, file_downloaded, header_df, main_df,
                   small_df, detections, removals, ret>>

(***************************************************************************)
(* Lines 113-128: return True, the except clauses, the finally clause.     *)
(***************************************************************************)
ReturnTrue ==
    /\ job = "table" /\ pc = "return"
    /\ ret' = "True"
    /\ pc' = "finally"
    /\ UNCHANGED <<job, listenerVars, s3Vars, textVars, bucket, configs, fileExists, file_downloaded, header_df, main_df,
                   small_df, dbVars, detections, removals, exc, trace>>

\* mutant: the removal is the last statement of the try block, not a finally clause
Except_SkipsFinally ==
    /\ job = "table" /\ pc = "except"
    /\ exc' = "none"
    /\ ret' = "False"
    /\ pc' = "done"
    /\ UNCHANGED <<job, listenerVars, s3Vars, textVars, bucket, configs, fileExists, file_downloaded, header_df,
                   main_df, small_df, dbVars, detections, removals, trace>>

\* mutant: the except clause deletes what the job has appended
Except_RollsBack ==
    /\ job = "table" /\ pc = "except"
    /\ exc' = "none"
    /\ ret' = "False"
    /\ pc' = "finally"
    /\ sink' = <<>>
    /\ UNCHANGED <<job, listenerVars, s3Vars, textVars, bucket, configs, fileExists, file_downloaded, header_df,
                   main_df, small_df, engines, db_failures, detections, removals, trace>>

\* except FileNotFoundError / except Exception: return False
Except ==
    /\ job = "table" /\ pc = "except"
    /\ exc' = "none"
    /\ ret' = "False"
    /\ pc' = "finally"
    /\ UNCHANGED <<job, listenerVars, s3Vars, textVars, bucket, configs, fileExists, file_downloaded, header_df, main_df,
                   small_df, dbVars, detections, removals, trace>>

\* finally, guard false: nothing to remove
FinallySkip ==
    /\ job = "table" /\ pc = "finally"
    /\ ~(file_downloaded /\ fileExists)
    /\ pc' = "done"
    /\ UNCHANGED <<job, listenerVars, s3Vars, textVars, bucket, configs, fileExists, file_downloaded, header_df, main_df,
                   small_df, dbVars, detections, removals, exc, ret, trace>>

\* mutant: os.remove is not wrapped in try/except OSError
FinallyRemove_Propagates ==
    /\ job = "table" /\ pc = "finally"
    /\ file_downloaded /\ fileExists
    /\ \E outcome \in {"ok", "OSError"} :
          /\ removals' = Append(removals, outcome)
          /\ fileExists' = (outcome # "ok")
          /\ exc' = IF outcome = "ok" THEN exc ELSE "OSError"
          /\ ret' = IF outcome = "ok" THEN ret ELSE "none"
    /\ pc' = "done"
    /\ Step("cleanup")
    /\ UNCHANGED <<job, listenerVars, s3Vars, textVars, bucket, configs, file_downloaded, header_df, main_df,
                   small_df, dbVars, detections>>

\* finally: os.remove succeeds, or raises OSError, which is logged
FinallyRemove ==
    /\ job = "table" /\ pc = "finally"
    /\ file_downloaded /\ fileExists
    /\ \E outcome \in {"ok", "OSError"} :
          /\ removals' = Append(removals, outcome)
          /\ fileExists' = (outcome # "ok")
    /\ pc' = "done"
    /\ Step("cleanup")
    /\ UNCHANGED <<job, listenerVars, s3Vars, textVars, bucket, configs, file_downloaded, header_df, main_df,
                   small_df, dbVars, detections, exc, ret>>

TableJob ==
    \/ DownloadNoBucket \/ DownloadNoLocalFile \/ DownloadTransferFails \/ DownloadOk
    \/ ExtractError \/ ExtractHeader \/ ExtractMain \/ ExtractSmall
    \/ SkipMain \/ MergeMain \/ SanitizeMain \/ PersistMain
    \/ SkipSmall \/ MergeSmall \/ SanitizeSmall \/ PersistSmall
    \/ ReturnTrue \/ Except \/ FinallySkip \/ FinallyRemove

(***************************************************************************)
(* PDFTextExtractor.download_file, called by extract_text (line 42), which *)
(* ignores what it returns: every failure is logged and extract_text goes  *)
(* on to open the local file.                                              *)
(***************************************************************************)
\* AWS_BUCKET unset, or os.makedirs raises: return False
TextDownloadSkipped ==
    /\ job = "text" /\ pc = "start"
    /\ pc' = "open"
    /\ Step("download")
    /\ UNCHANGED <<job, listenerVars, s3Vars, textVars, tableVars, bucket, fileExists, dbVars,
                   removals, exc, ret>>

\* download_file_from_s3 raises; open(.., "wb") may have created the file
TextDownloadFails ==
    /\ job = "text" /\ pc = "start"
    /\ bucket
    /\ fileExists' \in {fileExists, TRUE}
    /\ pc' = "open"
    /\ Step("download")
    /\ UNCHANGED <<job, listenerVars, s3Vars, textVars, tableVars, bucket, dbVars, removals, exc, ret>>

TextDownloadOk ==
    /\ job = "text" /\ pc = "start"
    /\ bucket
    /\ fileExists' = TRUE
    /\ text_downloaded' = TRUE
    /\ pc' = "open"
    /\ Step("download")
    /\ UNCHANGED <<job, listenerVars, s3Vars, text_lines, dataframe, tableVars, bucket, dbVars,
                   removals, exc, ret>>

(***************************************************************************)
(* PDFTextExtractor.extract_text, lines 43-61.                             *)
(***************************************************************************)
\* open() raises FileNotFoundError, or PyPDF2 raises on what was fetched
TextOpenFails ==
    /\ job = "text" /\ pc = "open"
    /\ Raise(IF fileExists THEN "Exception" ELSE "FileNotFoundError")
    /\ UNCHANGED <<job, listenerVars, s3Vars, textVars, tableVars, bucket, fileExists, dbVars,
                   removals, ret, trace>>

TextExtract ==
    /\ job = "text" /\ pc = "open"
    /\ fileExists
    /\ \E extracted_text \in Texts :
          text_lines' = split_text_by_newline(extract_operations(extracted_text))
    /\ pc' = "to_dataframe"
    /\ Step("extract")
    /\ UNCHANGED <<job, listenerVars, s3Vars, text_downloaded, dataframe, tableVars, bucket, fileExists, dbVars, removals, exc, ret>>

\* line 29
TextToDataframe ==
    /\ job = "text" /\ pc = "to_dataframe"
    /\ IF DataFrameRaises(text_lines)
       THEN Raise("ValueError") /\ UNCHANGED dataframe
       ELSE /\ dataframe' = text_to_dataframe(text_lines)
            /\ pc' = "send"
            /\ UNCHANGED exc
    /\ UNCHANGED <<job, listenerVars, s3Vars, text_downloaded, text_lines, tableVars, bucket, fileExists, dbVars, removals, ret, trace>>

(***************************************************************************)
(* PDFTextExtractor.send_to_db; the caller goes on at `next`.  Whatever    *)
(* is raised inside the try is logged by the except clause and the call    *)
(* returns.                                                                *)
(***************************************************************************)
text_send_to_db(df, table_name, next) ==
    /\ pc' = next
    /\ UNCHANGED exc
    /\ IF Empty(df)
       THEN UNCHANGED <<sink, engines, db_failures, fileExists, removals>>
       ELSE \E outcome \in DbOutcomes :
               CASE outcome = "manager_raises" ->
                       \* connection is still None: nothing to dispose
                       /\ db_failures' = db_failures + 1
                       /\ UNCHANGED <<sink, engines, fileExists, removals>>
                 [] outcome = "to_sql_raises" ->
                       /\ engines' = [created |-> engines.created + 1,
                                      disposed |-> engines.disposed + 1]
                       /\ db_failures' = db_failures + 1
                       /\ UNCHANGED <<sink, fileExists, removals>>
                 [] outcome = "ok" ->
                       /\ engines' = [created |-> engines.created + 1,
                                      disposed |-> engines.disposed + 1]
                       /\ sink' = Append(sink, [table_name |-> table_name, df |-> df])
                       /\ UNCHANGED db_failures
                       /\ IF fileExists
                          THEN \E removed \in {"ok", "OSError"} :
                                  /\ removals' = Append(removals, removed)
                                  /\ fileExists' = (removed # "ok")
                          ELSE UNCHANGED <<fileExists, removals>>

\* line 30
TextSend ==
    /\ job = "text" /\ pc = "send"
    /\ text_send_to_db(dataframe, S_pdf_text, "return")
    /\ Step("persist")
    /\ UNCHANGED <<job, listenerVars, s3Vars, textVars, tableVars, bucket, ret>>

\* lines 31-32
TextReturnTrue ==
    /\ job = "text" /\ pc = "return"
    /\ ret' = "True"
    /\ pc' = "done"
    /\ UNCHANGED <<job, listenerVars, s3Vars, textVars, tableVars, bucket, fileExists, dbVars,
                   removals, exc, trace>>

\* lines 33-35
TextExcept ==
    /\ job = "text" /\ pc = "except"
    /\ exc' = "none"
    /\ ret' = "False"
    /\ pc' = "done"
    /\ UNCHANGED <<job, listenerVars, s3Vars, textVars, tableVars, bucket, fileExists, dbVars,
                   removals, trace>>

TextJob ==
    \/ TextDownloadSkipped \/ TextDownloadFails \/ TextDownloadOk
    \/ TextOpenFails \/ TextExtract \/ TextToDataframe \/ TextSend
    \/ TextReturnTrue \/ TextExcept

(***************************************************************************)
(* One send_to_db call on its own, on any table: it returns (pc "done") or *)
(* raises to its caller (pc "except", exc set).                            *)
(***************************************************************************)
LoneSendTable ==
    /\ job = "send_table" /\ pc = "start"
    /\ send_to_db(dataframe, main_table_name, "done")
    /\ Step("persist")
    /\ UNCHANGED <<job, listenerVars, s3Vars, textVars, tableVars, bucket, fileExists, removals, ret>>

LoneSendText ==
    /\ job = "send_text" /\ pc = "start"
    /\ text_send_to_db(dataframe, S_pdf_text, "done")
    /\ Step("persist")
    /\ UNCHANGED <<job, listenerVars, s3Vars, textVars, tableVars, bucket, ret>>

LoneCalls == LoneSendTable \/ LoneSendText

Next == TableJob \/ TextJob \/ LoneCalls

Spec == Init /\ [][Next]_vars

(***************************************************************************)
(* The three table transformations called on their own, on any table:      *)
(* fix_header(df), add_header_info(header_df, content_df) and              *)
(* sanitize_column_names(df).  The argument tables are held in header_df   *)
(* and main_df, the returned table in dataframe.                           *)
(***************************************************************************)
S_Acao     == <<"A","c_cedilla","a_tilde","o">>
S_Pr_pct   == <<"P","r"," ","%">>
S_half     == <<"one_half">>
S_nbsp_ss1 == <<"nbsp","sharp_s","_","1">>

\* cells of the tables handed to fix_header: an empty cell and a word
FixCells == {<<>>, S_Qt}

\* labels of c columns: the RangeIndex of a detected table, or one custom label
FixLabelings(c) ==
    { [i \in 1..c |-> IntLabel(i - 1)], [i \in 1..c |-> StrLabel(S_Qt)] }

FixTables ==
    UNION { { DF(cols, rows) : cols \in FixLabelings(c),
                               rows \in [1..r -> [1..c -> FixCells]] } :
            c \in 0..MaxCols, r \in 0..MaxRows }

\* a cell that names the table it is from, its row and its column
PosCell(tag, r, c) == <<tag, Digits[r + 1], Digits[c + 1]>>

\* the tables of r rows over the labels cols, cell by cell distinct
PosTable(tag, cols, r) ==
    DF(cols, [i \in 1..r |-> [c \in DOMAIN cols |-> PosCell(tag, i, c)]])

MergeLabels == {IntLabel(0), StrLabel(S_Qt), StrLabel(S_insertion_date)}

MergeTables(tag) ==
    UNION { { PosTable(tag, cols, r) : cols \in [1..c -> MergeLabels] } :
            c \in 0..MaxCols, r \in 0..MaxRows }

SanitizeLabels ==
    {IntLabel(0), StrLabel(S_Qt), StrLabel(S_Acao), StrLabel(S_Pr_pct),
     StrLabel(S_half), StrLabel(S_nbsp_ss1), StrLabel(<<>>)}

SanitizeTables ==
    UNION { { PosTable("c", cols, r) : cols \in [1..c -> SanitizeLabels] } :
            c \in 0..MaxCols, r \in 0..MaxRows }

\* the tables a lone detection call may return: two rows, one row, and two
\* rows whose header row repeats a cell that is not the first
LoneFragments ==
    << RawTable(<< <<S_Pa, S_Qt>>, <<S_x1, S_y1>> >>),
       RawTable(<< <<S_x1, S_y1>> >>),
       RawTable(<< <<S_Pa, S_Qt, S_Qt>>, <<S_x1, S_y1, S_y2>> >>),
       RawTable(<< <<S_Pa, S_Qt>>, <<S_x1, S_y2>>, <<S_y1, S_y2>> >>) >>

LoneDetections ==
    { [raises |-> TRUE, tables |-> <<>>], [raises |-> FALSE, tables |-> <<>>] }
    \cup UNION { { [raises |-> FALSE, tables |-> [i \in 1..n |-> LoneFragments[f[i]]]] :
                     f \in [1..n -> DOMAIN LoneFragments] } : n \in 1..MaxFragments }

\* the configurations of a lone get_table_data call (its arguments)
LoneConfigs ==
    { [BaseConfig EXCEPT !.flavor = fl,
                         !.areas = [z \in Zones |-> a],
                         !.columns = [z \in Zones |-> c],
                         !.fix = [z \in Zones |-> fx]] :
        fl \in {"stream", "lattice"}, a \in {"None", "empty", "list"},
        c \in {"None", "empty", "list"}, fx \in BOOLEAN }

PureJobs == {"fix_header", "add_header_info", "sanitize_column_names", "get_table_data"}

PureInit ==
    /\ ListenerIdle /\ S3Idle
    /\ job \in PureJobs
    /\ pc = "start"
    /\ header_df \in IF job = "add_header_info" THEN {None} \cup MergeTables("h")
                      ELSE {None}
    /\ main_df \in CASE job = "fix_header" -> FixTables
                     [] job = "add_header_info" -> MergeTables("c")
                     [] job = "sanitize_column_names" -> SanitizeTables
                     [] OTHER -> {None}
    /\ dataframe = None
    /\ bucket = TRUE
    /\ configs \in IF job = "get_table_data" THEN LoneConfigs ELSE {BaseConfig}
    /\ fileExists \in IF job = "get_table_data" THEN BOOLEAN ELSE {FALSE}
    /\ file_downloaded = FALSE /\ small_df = None
    /\ text_downloaded = FALSE /\ text_lines = <<>>
    /\ sink = <<>> /\ engines = [created |-> 0, disposed |-> 0] /\ db_failures = 0
    /\ detections = <<>> /\ removals = <<>>
    /\ exc = "none" /\ ret = "none" /\ trace = <<>>

\* the call returns `result`
PureReturn(result) ==
    /\ dataframe' = result
    /\ pc' = "done"
    /\ UNCHANGED <<job, listenerVars, s3Vars, text_downloaded, text_lines, tableVars, bucket, fileExists, dbVars,
                   removals, exc, ret, trace>>

FixHeaderCall ==
    /\ job = "fix_header" /\ pc = "start"
    /\ PureReturn(fix_header(main_df))

AddHeaderInfoCall ==
    /\ job = "add_header_info" /\ pc = "start"
    /\ PureReturn(add_header_info(header_df, main_df))

SanitizeCall ==
    /\ job = "sanitize_column_names" /\ pc = "start"
    /\ PureReturn(sanitize_column_names(main_df))

\* sanitize_column_names called on the table it returned
SanitizeAgainCall ==
    /\ job = "sanitize_column_names" /\ pc = "done"
    /\ small_df' = sanitize_column_names(dataframe)
    /\ pc' = "done_twice"
    /\ UNCHANGED <<job, listenerVars, s3Vars, textVars, configs, file_downloaded, header_df, main_df, detections,
                   bucket, fileExists, dbVars, removals, exc, ret, trace>>

\* get_table_data(table_areas, table_columns, fix_header, flavor, pages) called
\* on its own, with the arguments the configuration holds for the main zone
GetTableDataCall ==
    /\ job = "get_table_data" /\ pc = "start"
    /\ \E detected \in LoneDetections :
          /\ dataframe' = get_table_data(fileExists, configs.fix["main"], detected)
          /\ detections' =
                IF fileExists
                THEN <<[zone |-> "main",
                        args |-> camelot_args(configs.areas["main"], configs.columns["main"],
                                              configs.flavor),
                        raised |-> detected.raises,
                        tables |-> detected.tables,
                        n |-> Len(detected.tables)]>>
                ELSE detections
    /\ pc' = "done"
    /\ UNCHANGED <<job, listenerVars, s3Vars, text_downloaded, text_lines, configs, file_downloaded, header_df,
                   main_df, small_df, bucket, fileExists, dbVars, removals, exc, ret, trace>>

PureNext ==
    \/ FixHeaderCall \/ AddHeaderInfoCall \/ SanitizeCall \/ SanitizeAgainCall
    \/ GetTableDataCall

PureSpec == PureInit /\ [][PureNext]_vars

(***************************************************************************)
(* HTMLSQSListener.check_messages (configs/tools/queue.py).                *)
(***************************************************************************)
MaxMessages == 2

\* chr(32) .. chr(126); chr(96) goes by its name
Printable ==
    <<" ","!","\"","#","$","%","&","'","(",")","*","+",",","-",".","/",
      "0","1","2","3","4","5","6","7","8","9",":",";","<","=",">","?",
      "@","A","B","C","D","E","F","G","H","I","J","K","L","M","N","O",
      "P","Q","R","S","T","U","V","W","X","Y","Z","[","\\","]","^","_",
      "grave","a","b","c","d","e","f","g","h","i","j","k","l","m","n","o",
      "p","q","r","s","t","u","v","w","x","y","z","{","|","}","~">>

UpperHex == <<"0","1","2","3","4","5","6","7","8","9","A","B","C","D","E","F">>
LowerHex == <<"a","b","c","d","e","f">>

IsHex(c) == c \in Range(UpperHex) \cup Range(LowerHex)

HexValue(c) ==
    IF c \in Range(UpperHex)
    THEN (CHOOSE i \in DOMAIN UpperHex : UpperHex[i] = c) - 1
    ELSE (CHOOSE i \in DOMAIN LowerHex : LowerHex[i] = c) + 9

\* the character a decoded byte stands for; control characters are not told
\* apart, and a byte from 0x80 on is decoded on its own (errors="replace")
chr(byte) ==
    IF byte \in 32..126 THEN Printable[byte - 31]
    ELSE IF byte < 128 THEN "<control>" ELSE "<U+FFFD>"

(***************************************************************************)
(* urllib.parse.unquote: every "%" followed by two hexadecimal digits is   *)
(* replaced by the character of that byte; any other "%" and every other   *)
(* character, "+" included, is kept.                                       *)
(***************************************************************************)
RECURSIVE unquote_from(_, _)
unquote_from(string, i) ==
    IF i > Len(string) THEN <<>>
    ELSE IF /\ string[i] = "%" /\ i + 2 <= Len(string)
            /\ IsHex(string[i + 1]) /\ IsHex(string[i + 2])
         THEN <<chr(16 * HexValue(string[i + 1]) + HexValue(string[i + 2]))>>
                 \o unquote_from(string, i + 3)
         ELSE <<string[i]>> \o unquote_from(string, i + 1)

unquote(string) == unquote_from(string, 1)

\* the substitution with every "+" replaced, whatever follows it
sub_plus_before_paren_EveryPlus(string, i) ==
    [k \in 1..(Len(string) - i + 1) |->
        IF string[i + k - 1] = "+" THEN " " ELSE string[i + k - 1]]

(***************************************************************************)
(* re.sub(r"\+(?=\()", " ", string) from position i on: the matches are    *)
(* found left to right; a match is one "+", the "(" after it is looked at  *)
(* and not consumed.                                                       *)
(***************************************************************************)
RECURSIVE sub_plus_before_paren(_, _)
sub_plus_before_paren(string, i) ==
    IF i > Len(string) THEN <<>>
    ELSE IF string[i] = "+" /\ i < Len(string) /\ string[i + 1] = "("
         THEN <<" ">> \o sub_plus_before_paren(string, i + 1)
         ELSE <<string[i]>> \o sub_plus_before_paren(string, i + 1)

\* lines 141-142
object_key_final(object_key) == sub_plus_before_paren(unquote(object_key), 1)

\* the object keys of the notifications
Keys ==
    { <<"%","2","B","(">>,              \* %2B(
      <<"+","%","2","8">>,              \* +%28
      <<"+","+","(","+">>,              \* ++(+
      <<"a","%","2","0","b","%","2">> } \* a%20b%2

\* what json.loads and the lookups of lines 124-133 make of a message body
Bodies == {"not_json", "no_records", "no_key", "malformed", "record"}

\* the messages received: one without ReceiptHandle, one of every unusable
\* body, and one well-formed S3 notification for every key
Messages ==
    {[handle |-> FALSE, body |-> "record", key |-> <<"a","+","b">>]}
    \cup {[handle |-> TRUE, body |-> b, key |-> <<>>] : b \in Bodies \ {"record"}}
    \cup {[handle |-> TRUE, body |-> "record", key |-> k] : k \in Keys}

MessageLists == UNION {[1..n -> Messages] : n \in 1..MaxMessages}

\* what constructing an extractor and calling start() may do: return True,
\* return False, or raise; json.JSONDecodeError is told apart from the other
\* exceptions because check_messages has a handler of its own for it
ExtractorOutcomes == {"True", "False", "Exception", "JSONDecodeError"}
Raises == {"Exception", "JSONDecodeError"}

\* no extractor job is running
ExtractorIdle ==
    /\ job = "none" /\ pc = "start" /\ bucket = FALSE /\ configs = BaseConfig
    /\ fileExists = FALSE /\ file_downloaded = FALSE
    /\ header_df = None /\ main_df = None /\ small_df = None
    /\ text_downloaded = FALSE /\ text_lines = <<>> /\ dataframe = None
    /\ sink = <<>> /\ engines = [created |-> 0, disposed |-> 0] /\ db_failures = 0
    /\ detections = <<>> /\ removals = <<>>
    /\ exc = "none" /\ ret = "none" /\ trace = <<>>

ListenerInit ==
    /\ ExtractorIdle /\ S3Idle
    /\ queue \in BOOLEAN
    /\ messages = <<>> /\ cursor = 0 /\ lpc = "start"
    /\ deleted = <<>> /\ handed = <<>>

\* lines 100-102
NoQueueName ==
    /\ lpc = "start" /\ ~queue
    /\ lpc' = "done"
    /\ UNCHANGED <<extractorVars, s3Vars, queue, messages, cursor, deleted, handed>>

\* lines 105-114 and 185-186: check_message_in_queue says no, or
\* receive_messages_from_queue returns an empty list
NoMessages ==
    /\ lpc = "start" /\ queue
    /\ lpc' = "done"
    /\ UNCHANGED <<extractorVars, s3Vars, queue, messages, cursor, deleted, handed>>

\* lines 105-116
Receive ==
    /\ lpc = "start" /\ queue
    /\ messages' \in MessageLists
    /\ cursor' = 1
    /\ lpc' = "loop"
    /\ UNCHANGED <<extractorVars, s3Vars, queue, deleted, handed>>

\* the loop is at a message
AtMessage == lpc = "loop" /\ cursor <= Len(messages)

\* the loop goes on to the next message
NextMessage ==
    /\ cursor' = cursor + 1
    /\ UNCHANGED <<extractorVars, s3Vars, queue, messages, lpc>>

\* lines 118-121
SkipNoHandle ==
    /\ AtMessage /\ ~messages[cursor].handle
    /\ NextMessage
    /\ UNCHANGED <<deleted, handed>>

\* lines 124-137: no records or no object key
DeleteUnusable ==
    /\ AtMessage /\ messages[cursor].handle
    /\ messages[cursor].body \in {"no_records", "no_key"}
    /\ deleted' = Append(deleted, cursor)
    /\ NextMessage
    /\ UNCHANGED handed

\* lines 124, 178-180
NotJson ==
    /\ AtMessage /\ messages[cursor].handle
    /\ messages[cursor].body = "not_json"
    /\ deleted' = Append(deleted, cursor)
    /\ NextMessage
    /\ UNCHANGED handed

\* lines 124-133, 181-183: the body is JSON of another shape, a lookup raises
\* AttributeError or TypeError
Malformed ==
    /\ AtMessage /\ messages[cursor].handle
    /\ messages[cursor].body = "malformed"
    /\ NextMessage
    /\ UNCHANGED <<deleted, handed>>

(***************************************************************************)
(* Lines 139-183 for a well-formed notification: the text extractor, then  *)
(* the table extractor unless the first raised.  What an extractor raises  *)
(* is handled at 164-168 (delete, raise again) and then by the handler of  *)
(* the enclosing try that matches it: 178-180 (delete) for a               *)
(* JSONDecodeError, 181-183 (pass) for any other.                          *)
(***************************************************************************)
Process ==
    /\ AtMessage /\ messages[cursor].handle
    /\ messages[cursor].body = "record"
    /\ LET key == object_key_final(messages[cursor].key)
       IN  \E resultTxt \in ExtractorOutcomes, resultImg \in ExtractorOutcomes :
              LET text == [msg |-> cursor, extractor |-> "text", key |-> key,
                           result |-> resultTxt]
                  table == [msg |-> cursor, extractor |-> "table", key |-> key,
                            result |-> resultImg]
                  raised == IF resultTxt \in Raises THEN resultTxt
                            ELSE IF resultImg \in Raises THEN resultImg ELSE "none"
              IN  /\ handed' = IF resultTxt \in Raises THEN Append(handed, text)
                               ELSE handed \o <<text, table>>
                  /\ deleted' = CASE raised = "none" -> Append(deleted, cursor)
                                  [] raised = "JSONDecodeError" ->
                                        deleted \o <<cursor, cursor>>
                                  [] OTHER -> Append(deleted, cursor)
    /\ NextMessage

\* the list is exhausted
LoopEnd ==
    /\ lpc = "loop" /\ cursor > Len(messages)
    /\ lpc' = "done"
    /\ UNCHANGED <<extractorVars, s3Vars, queue, messages, cursor, deleted, handed>>

ListenerNext ==
    \/ NoQueueName \/ NoMessages \/ Receive
    \/ SkipNoHandle \/ DeleteUnusable \/ NotJson \/ Malformed \/ Process
    \/ LoopEnd

ListenerSpec == ListenerInit /\ [][ListenerNext]_vars

(***************************************************************************)
(* AWSS3.__new__ (configs/tools/aws/s3.py), called again and again in one  *)
(* process while the environment may change between the calls.             *)
(***************************************************************************)
MaxAttempts == 3

\* an environment variable: os.getenv gives None, "" or a value
EnvValues == {"unset", "empty", "value"}
Envs == [access_key : EnvValues, secret_key : EnvValues, region : EnvValues]

\* the arguments of a call: given, or left None
Args == [access_key : BOOLEAN, secret_key : BOOLEAN, region_name : BOOLEAN]

\* lines 148-169
check_environment_variables ==
    env.access_key # "unset" /\ env.secret_key # "unset" /\ env.region # "unset"

\* line 39: not check_environment_variables() and every argument is None
NothingProvided(args) ==
    /\ ~check_environment_variables
    /\ ~args.access_key /\ ~args.secret_key /\ ~args.region_name

\* lines 50-51: `access_key or os.getenv(..)` is truthy
AccessKeyLoaded(args) == args.access_key \/ env.access_key = "value"
SecretKeyLoaded(args) == args.secret_key \/ env.secret_key = "value"

\* line 36: super().__new__(cls), no attribute set yet
BareInstance == [none |-> FALSE, access_key |-> FALSE, secret_key |-> FALSE, s3 |-> FALSE]

S3Init ==
    /\ ExtractorIdle /\ ListenerIdle
    /\ instance = NoInstance
    /\ env \in Envs
    /\ attempts = <<>>

\* one more AWSS3() call ended: it returned `returned`, or raised
Called(result, returned) ==
    /\ Len(attempts) < MaxAttempts
    /\ attempts' = Append(attempts, [result |-> result, instance |-> returned])
    /\ UNCHANGED <<extractorVars, listenerVars, env>>

\* the environment changes between two calls
SetEnv ==
    /\ Len(attempts) < MaxAttempts
    /\ env' \in Envs \ {env}
    /\ UNCHANGED <<extractorVars, listenerVars, instance, attempts>>

\* lines 33-47: the new object is bound to _instance, then ValueError
S3NothingProvided ==
    /\ instance.none
    /\ \E args \in Args : NothingProvided(args)
    /\ instance' = BareInstance
    /\ Called("ValueError", NoInstance)

\* lines 33-58: the credentials are loaded, a key is missing, ValueError
S3KeyMissing ==
    /\ instance.none
    /\ \E args \in Args :
          /\ ~NothingProvided(args)
          /\ ~AccessKeyLoaded(args) \/ ~SecretKeyLoaded(args)
          /\ instance' = [BareInstance EXCEPT !.access_key = AccessKeyLoaded(args),
                                              !.secret_key = SecretKeyLoaded(args)]
    /\ Called("ValueError", NoInstance)

\* lines 33-78: boto3.client raises, _instance is reset, the exception goes on
S3ClientFails ==
    /\ instance.none
    /\ \E args \in Args :
          ~NothingProvided(args) /\ AccessKeyLoaded(args) /\ SecretKeyLoaded(args)
    /\ instance' = NoInstance
    /\ Called("Exception", NoInstance)

\* lines 33-71, 84
S3Created ==
    /\ instance.none
    /\ \E args \in Args :
          ~NothingProvided(args) /\ AccessKeyLoaded(args) /\ SecretKeyLoaded(args)
    /\ instance' = [none |-> FALSE, access_key |-> TRUE, secret_key |-> TRUE, s3 |-> TRUE]
    /\ Called("returned", instance')

\* lines 33, 80-84: _instance is not None, whatever it holds
S3Existing ==
    /\ ~instance.none
    /\ UNCHANGED instance
    /\ Called("returned", instance)

S3Next ==
    \/ SetEnv
    \/ S3NothingProvided \/ S3KeyMissing \/ S3ClientFails \/ S3Created \/ S3Existing

S3Spec == S3Init /\ [][S3Next]_vars

(***************************************************************************)
(* Vocabulary of the properties.                                           *)
(***************************************************************************)
\* a table that is neither None nor empty
Present(df) == ~df.none /\ Len(df.columns) > 0 /\ Len(df.rows) > 0

ZoneDf(zone) == IF zone = "header" THEN header_df
                ELSE IF zone = "main" THEN main_df ELSE small_df

Returned == pc = "done"

\* start of the table job got past the download
TableDownloaded == job = "table" /\ Len(trace) > 0 /\ trace[1] = "download"

TableDownloadFailed == job = "table" /\ Len(trace) > 0 /\ trace[1] = "download_failed"

\* the positions of start after the three get_table_data calls
AfterExtraction == job = "table" /\ Len(trace) > 3 /\ trace[4] = "extract_small"

NoRegion(zone) == configs.areas[zone] = "None" /\ configs.columns[zone] = "None"

DetectionsOf(zone) == {i \in DOMAIN detections : detections[i].zone = zone}

SinkNames == [i \in DOMAIN sink |-> sink[i].table_name]

S_fatura_xp          == <<"f","a","t","u","r","a","_","x","p">>
S_fatura_xp_small    == S_fatura_xp \o S__small
ExpectedMainName     == IF configs.hasName THEN S_fatura_xp
                        ELSE S_fatura_ \o S_default_main
ExpectedSmallName    == IF configs.hasName THEN S_fatura_xp_small
                        ELSE S_fatura_ \o S_default_small \o S__small

(***************************************************************************)
(* C1.  Original statement: once PDFTableExtractor.start has returned from *)
(* a job whose download completed, the local file does not exist.          *)
(***************************************************************************)
C1_FileAbsentAfterStart ==
    (TableDownloaded /\ Returned) => ~fileExists

(***************************************************************************)
(* C1, amended: once start has returned from a job whose download          *)
(* completed, whichever later step failed, exactly one os.remove of the    *)
(* local file was attempted, and the file exists afterwards only if that   *)
(* os.remove raised OSError.                                               *)
(***************************************************************************)
C1_CleanupAttempted ==
    (TableDownloaded /\ Returned) =>
        /\ Len(removals) = 1
        /\ fileExists <=> (removals[1] = "OSError")

C1_Witness ==
    /\ TableDownloaded /\ Returned
    /\ ret = "False" /\ db_failures > 0 /\ Len(sink) = 1
    /\ removals = <<"ok">> /\ ~fileExists

(***************************************************************************)
(* C2.  In the text job, once the download completed, the local PDF is     *)
(* deleted by the time start has returned, on success and on failure.      *)
(***************************************************************************)
C2_TextFileDeleted ==
    (job = "text" /\ text_downloaded /\ Returned) => ~fileExists

(***************************************************************************)
(* C3.  When the download step of the table job fails, start returns False *)
(* with no detection call, no database append (no engine either) and no    *)
(* os.remove having been made.                                             *)
(***************************************************************************)
C3_DownloadFailure ==
    TableDownloadFailed =>
        /\ detections = <<>>
        /\ sink = <<>> /\ engines.created = 0
        /\ removals = <<>>
        /\ trace = <<"download_failed">>
        /\ pc \in {"except", "finally", "done"}
        /\ Returned => ret = "False"

C3_Witness ==
    /\ TableDownloadFailed /\ Returned /\ ret = "False"
    /\ bucket /\ fileExists /\ removals = <<>>

(***************************************************************************)
(* C4.  When the three extractions were made and no database call failed,  *)
(* start returns True and the sink holds exactly one append per present    *)
(* zone: main under fatura_{name}, then small under fatura_{name}_small.   *)
(***************************************************************************)
C4_AppendsPresentZones ==
    (AfterExtraction /\ Returned /\ db_failures = 0) =>
        /\ ret = "True"
        /\ SinkNames = (IF Present(main_df) THEN <<ExpectedMainName>> ELSE <<>>)
                       \o (IF Present(small_df) THEN <<ExpectedSmallName>> ELSE <<>>)
        /\ \A i \in DOMAIN sink :
              sink[i].df = IF sink[i].table_name = ExpectedMainName THEN main_df ELSE small_df

C4_Witness ==
    /\ AfterExtraction /\ Returned /\ ret = "True"
    /\ ~Present(main_df) /\ Present(small_df)
    /\ SinkNames = <<S_fatura_xp_small>>

\* both zones absent: the job still succeeds and nothing is appended
C4_WitnessBothAbsent ==
    /\ AfterExtraction /\ Returned /\ ret = "True"
    /\ ~Present(main_df) /\ ~Present(small_df) /\ sink = <<>>

(***************************************************************************)
(* C5.  In the table job a database error inside send_to_db is raised to   *)
(* start, and start returns False.                                         *)
(***************************************************************************)
C5_DbErrorIsFatal ==
    (job \in {"table", "send_table"} /\ db_failures > 0) =>
        \/ pc = "except" /\ exc # "none"
        \/ job = "table" /\ pc \in {"finally", "done"} /\ ret = "False"

C5_Witness ==
    /\ job = "table" /\ Returned /\ ret = "False"
    /\ db_failures = 1 /\ SinkNames = <<S_fatura_xp>> /\ Present(small_df)

(***************************************************************************)
(* C6.  In the text job, when the database append of a non-empty table     *)
(* fails, start returns False.                                             *)
(***************************************************************************)
C6_TextDbErrorIsFatal ==
    (job = "text" /\ Returned /\ db_failures > 0) => ret = "False"

(***************************************************************************)
(* C7.  send_to_db, in either variant, given an empty table creates no     *)
(* engine and makes no append; no table in the sink is empty.              *)
(***************************************************************************)
C7_EmptyTableNotSent ==
    /\ \A i \in DOMAIN sink :
          Len(sink[i].df.columns) > 0 /\ Len(sink[i].df.rows) > 0
    /\ (/\ job \in {"send_table", "send_text", "text"}
        /\ "persist" \in Range(trace)
        /\ ~Present(dataframe)) =>
            /\ sink = <<>> /\ engines.created = 0 /\ db_failures = 0
            /\ exc = "none"

C7_Witness ==
    /\ job = "send_table" /\ Returned
    /\ ~dataframe.none /\ Len(dataframe.columns) > 0 /\ Len(dataframe.rows) = 0
    /\ sink = <<>>

(***************************************************************************)
(* C8.  A detection call that raises leaves its zone absent; the three     *)
(* zones are extracted whatever the detection calls did; and start does    *)
(* not return False unless the download, the configuration lookup or the   *)
(* database failed.                                                        *)
(***************************************************************************)
C8_ExtractionErrorIsSoft ==
    job = "table" =>
        /\ \A i \in DOMAIN detections :
              detections[i].raised => ZoneDf(detections[i].zone).none
        /\ (TableDownloaded /\ ConfigUsable /\ pc \notin {"extract_header", "extract_main",
                                                          "extract_small"}) =>
              [i \in DOMAIN detections |-> detections[i].zone] = <<"header", "main", "small">>
        /\ ret = "False" => (TableDownloadFailed \/ ~ConfigUsable \/ db_failures > 0)

C8_Witness ==
    /\ job = "table" /\ Returned /\ ret = "True"
    /\ detections[1].raised /\ detections[2].raised /\ ~detections[3].raised
    /\ SinkNames = <<S_fatura_xp_small>>

(***************************************************************************)
(* C9.  Original statement: for a zone with neither areas nor columns      *)
(* table detection is not invoked and the zone's result is absent.         *)
(***************************************************************************)
C9_UnconfiguredZoneSkipped ==
    (job = "table" /\ ConfigUsable) =>
        \A zone \in Zones :
            NoRegion(zone) => (DetectionsOf(zone) = {} /\ ZoneDf(zone).none)

(***************************************************************************)
(* C9, amended: for a zone with neither areas nor columns table detection  *)
(* is still invoked, once, with neither table_areas nor columns attached;  *)
(* when that call raises or finds no table the zone's result is absent and *)
(* nothing is appended for it; and the job does not fail because of it.    *)
(***************************************************************************)
C9_UnconfiguredZoneDetected ==
    (AfterExtraction /\ ConfigUsable) =>
        \A zone \in Zones :
            NoRegion(zone) =>
                /\ Cardinality(DetectionsOf(zone)) = 1
                /\ \A i \in DetectionsOf(zone) :
                      /\ detections[i].args.table_areas = "unset"
                      /\ detections[i].args.columns = "unset"
                      /\ (detections[i].raised \/ detections[i].n = 0) =>
                            /\ ZoneDf(zone).none
                            /\ zone = "main" => ExpectedMainName \notin Range(SinkNames)
                            /\ zone = "small" => ExpectedSmallName \notin Range(SinkNames)
                /\ ret = "False" => db_failures > 0

C9_Witness ==
    /\ AfterExtraction /\ Returned /\ ret = "True"
    /\ NoRegion("main") /\ NoRegion("small")
    /\ Present(main_df) /\ small_df.none
    /\ Cardinality(DetectionsOf("main")) = 1
    /\ Cardinality(DetectionsOf("small")) = 1
    /\ ExpectedMainName \in Range(SinkNames)

(***************************************************************************)
(* C10.  Original statement: no table is appended before both the main     *)
(* merge and the small merge were performed (taken for the jobs in which   *)
(* both tables are present).                                               *)
(***************************************************************************)
C10_AppendsAfterBothMerges ==
    (job = "table" /\ Present(main_df) /\ Present(small_df)) =>
        \A i \in DOMAIN trace :
            trace[i] \in {"persist_main", "persist_small"} =>
                /\ \E j \in 1..(i - 1) : trace[j] = "merge_main"
                /\ \E j \in 1..(i - 1) : trace[j] = "merge_small"

\* the steps of start in the order of the code
StepOrder ==
    <<"download", "extract_header", "extract_main", "extract_small",
      "merge_main", "sanitize_main", "persist_main",
      "merge_small", "sanitize_small", "persist_small", "cleanup">>

StepRanks == [n \in Range(StepOrder) |-> CHOOSE k \in DOMAIN StepOrder : StepOrder[k] = n]

StepRank(name) == StepRanks[name]

(***************************************************************************)
(* C10, amended: the steps occur in the order download, extract header,    *)
(* extract main, extract small, then merge, sanitize and persist of the    *)
(* main table, then merge, sanitize (unless switched off) and persist of   *)
(* the small table, then cleanup.  A table is appended right after its own *)
(* merge and sanitize, the main table before the small merge; cleanup is   *)
(* the last step before start returns.                                     *)
(***************************************************************************)
C10_StepOrder ==
    (job = "table" /\ ~TableDownloadFailed) =>
        /\ \A i \in DOMAIN trace : trace[i] \in Range(StepOrder)
        /\ \A i \in 1..(Len(trace) - 1) : StepRank(trace[i]) < StepRank(trace[i + 1])
        /\ \A i \in DOMAIN trace :
              /\ trace[i] = "persist_main" =>
                    i > 2 /\ trace[i - 1] = "sanitize_main" /\ trace[i - 2] = "merge_main"
              /\ trace[i] = "persist_small" =>
                    /\ i > 2
                    /\ IF configs.small_sanitize
                       THEN trace[i - 1] = "sanitize_small" /\ trace[i - 2] = "merge_small"
                       ELSE trace[i - 1] = "merge_small"
              /\ trace[i] = "extract_small" =>
                    i = 4 /\ trace[1] = "download" /\ trace[2] = "extract_header"
                          /\ trace[3] = "extract_main"
              /\ trace[i] = "cleanup" => i = Len(trace) /\ Returned
        /\ (Returned /\ TableDownloaded) => trace[Len(trace)] = "cleanup"

C10_Witness ==
    /\ job = "table" /\ Returned /\ ret = "True"
    /\ trace = StepOrder

(***************************************************************************)
(* C11.  PDFTableExtractor.start and PDFTextExtractor.start always end by  *)
(* returning True or False: once a job is over its result is one of the    *)
(* two booleans and no exception is left pending for the caller; an        *)
(* exception raised by any step (download, extraction, configuration       *)
(* lookup, persistence) is pending only at the except clause, which can    *)
(* always run, and the return and the finally clause (with its file        *)
(* removal) can always complete.                                           *)
(***************************************************************************)
C11_StartReturnsBoolean ==
    job \in {"table", "text"} =>
        /\ Returned => (ret \in {"True", "False"} /\ exc = "none")
        /\ ~Returned => (ret = "none" \/ pc = "finally")
        /\ exc # "none" <=> pc = "except"
        /\ pc = "except" => ENABLED (Except \/ TextExcept)
        /\ pc = "return" => ENABLED (ReturnTrue \/ TextReturnTrue)
        /\ pc = "finally" => ENABLED (FinallySkip \/ FinallyRemove)

C11_Witness ==
    /\ job = "table" /\ Returned /\ ret = "False"
    /\ db_failures > 0
    /\ removals = <<"OSError">>

C11_WitnessText ==
    job = "text" /\ Returned /\ ret = "False" /\ ~fileExists

\* the configuration is None, or has no "flavor", or has no "pages"
ConfigIncomplete == configs.isNone \/ ~configs.hasFlavor \/ ~configs.hasPages

(***************************************************************************)
(* C12.  Original statement: when the configuration is None or lacks the   *)
(* global flavor or pages, start returns False after the download, no zone *)
(* is extracted, nothing is appended, and the downloaded file is gone.     *)
(***************************************************************************)
C12_ConfigErrorCleansUp ==
    (job = "table" /\ ConfigIncomplete /\ TableDownloaded /\ Returned) =>
        /\ ret = "False"
        /\ detections = <<>>
        /\ header_df.none /\ main_df.none /\ small_df.none
        /\ sink = <<>> /\ engines.created = 0
        /\ ~fileExists

(***************************************************************************)
(* C12, amended: when the configuration is None or lacks the global flavor *)
(* or pages, the job fails where the configuration is first used, in the   *)
(* arguments of the first extraction call: start returns False after the   *)
(* download, no zone is extracted, nothing is appended, and the removal of *)
(* the downloaded file is still attempted, once; the file is gone unless   *)
(* that os.remove raised OSError.                                          *)
(***************************************************************************)
C12_ConfigErrorIsFatal ==
    /\ (job = "table" /\ ConfigIncomplete /\ TableDownloaded) =>
          /\ detections = <<>>
          /\ header_df.none /\ main_df.none /\ small_df.none
          /\ sink = <<>> /\ engines.created = 0
          /\ pc \in {"extract_header", "except", "finally", "done"}
          /\ pc = "except" => exc = (IF configs.isNone THEN "AttributeError" ELSE "KeyError")
    /\ (job = "table" /\ ConfigIncomplete /\ TableDownloaded /\ Returned) =>
          /\ ret = "False"
          /\ trace = <<"download", "cleanup">>
          /\ Len(removals) = 1
          /\ fileExists <=> (removals[1] = "OSError")

C12_Witness ==
    /\ job = "table" /\ ConfigIncomplete /\ ~configs.isNone
    /\ TableDownloaded /\ Returned
    /\ ret = "False" /\ removals = <<"ok">> /\ ~fileExists

(***************************************************************************)
(* C13.  Every engine a send_to_db call obtained from                      *)
(* RDSPostgreSQLManager.alchemy has been disposed once the call is over,   *)
(* whether it returned or raised, in the table variant and in the text     *)
(* variant.                                                                *)
(***************************************************************************)
C13_EnginesDisposed ==
    engines.disposed = engines.created

(***************************************************************************)
(* C14.  For any table with at least 2 rows and at least 1 column,         *)
(* fix_header returns rows-1 rows and cols-1 columns: the labels are the   *)
(* cells of row 0 as strings without the first one, and the rows are rows  *)
(* 1..N in order without their first cell, whatever row 0 holds (repeated  *)
(* or empty cells included).                                               *)
(***************************************************************************)
C14_FixHeaderShape ==
    (job = "fix_header" /\ Returned
        /\ Len(main_df.rows) >= 2 /\ Len(main_df.columns) >= 1) =>
        /\ ~dataframe.none
        /\ Len(dataframe.rows) = Len(main_df.rows) - 1
        /\ Len(dataframe.columns) = Len(main_df.columns) - 1
        /\ dataframe.columns =
              Tail([i \in DOMAIN main_df.columns |-> StrLabel(main_df.rows[1][i])])
        /\ \A r \in DOMAIN dataframe.rows :
              dataframe.rows[r] = Tail(main_df.rows[r + 1])

(***************************************************************************)
(* C15.  For any table that is empty (no rows or no columns) or has fewer  *)
(* than 2 rows, fix_header returns its argument unchanged, labels and rows *)
(* alike, and does not raise.                                              *)
(***************************************************************************)
C15_FixHeaderNoOp ==
    (job = "fix_header" /\ Returned
        /\ (Empty(main_df) \/ Len(main_df.rows) < 2)) =>
        dataframe = main_df /\ exc = "none"

C15_Witness ==
    /\ job = "fix_header" /\ Returned
    /\ Len(main_df.rows) = 1 /\ Len(main_df.columns) = 2
    /\ main_df.rows[1] = <<S_Qt, <<>> >>
    /\ dataframe = main_df

C15_WitnessEmpty ==
    /\ job = "fix_header" /\ Returned
    /\ Len(main_df.rows) = 3 /\ Len(main_df.columns) = 0
    /\ dataframe = main_df

\* the header argument of add_header_info is None or empty
HeaderAbsent == header_df.none \/ Empty(header_df)

(***************************************************************************)
(* C16.  add_header_info(H, C), H of h columns and C of c columns, returns *)
(* c + h + 1 columns when both are non-empty, h + 1 columns when C is      *)
(* empty and H is not, and c + 1 columns when H is empty or absent,        *)
(* whatever the column labels of H and C are.                              *)
(***************************************************************************)
C16_MergeColumnCount ==
    (job = "add_header_info" /\ Returned) =>
        LET h == Len(header_df.columns)
            c == Len(main_df.columns)
        IN  Len(dataframe.columns) =
                IF HeaderAbsent THEN c + 1
                ELSE IF Empty(main_df) THEN h + 1
                ELSE c + h + 1

(***************************************************************************)
(* C17.  For non-empty H and non-empty C, add_header_info returns len(C)   *)
(* rows; row i is content row i, then the values of header row 0 under     *)
(* H's columns, then the date; the columns are those of C, then those of   *)
(* H, then the date column; rows of H after the first play no part.        *)
(***************************************************************************)
C17_MergeRows ==
    (job = "add_header_info" /\ Returned /\ ~HeaderAbsent /\ ~Empty(main_df)) =>
        /\ Len(dataframe.rows) = Len(main_df.rows)
        /\ dataframe.columns =
              main_df.columns \o header_df.columns \o <<StrLabel(S_insertion_date)>>
        /\ \A i \in DOMAIN dataframe.rows :
              dataframe.rows[i] = main_df.rows[i] \o header_df.rows[1] \o <<Today>>

\* sanitize_column_names has returned, from a call on a non-empty table
Sanitized == job = "sanitize_column_names" /\ pc \in {"done", "done_twice"}
                /\ ~Empty(main_df)

(***************************************************************************)
(* C18.  Sanitizing is idempotent on the column labels of a non-empty      *)
(* table: sanitize_column_names applied to the table it returned returns   *)
(* the same labels (and the same table).                                   *)
(***************************************************************************)
C18_SanitizeIdempotent ==
    (Sanitized /\ pc = "done_twice") =>
        small_df.columns = dataframe.columns /\ small_df = dataframe

C18_Witness ==
    /\ Sanitized /\ pc = "done_twice"
    /\ main_df.columns = <<StrLabel(S_half), StrLabel(S_Pr_pct)>>
    /\ small_df.columns = <<StrLabel(<<"_","1","2">>), StrLabel(<<"p","r","_">>)>>

\* the labels the sanitizing is to give, label by label
C19_Expected(label) ==
    CASE label = IntLabel(0)          -> <<"0">>
      [] label = StrLabel(S_Qt)       -> <<"q","t">>
      [] label = StrLabel(S_Acao)     -> <<"a","c","a","o">>
      [] label = StrLabel(S_Pr_pct)   -> <<"p","r","_">>
      [] label = StrLabel(S_half)     -> <<"_","1","2">>
      [] label = StrLabel(S_nbsp_ss1) -> <<"_","s","s","_","1">>
      [] label = StrLabel(<<>>)       -> <<>>

(***************************************************************************)
(* C19.  For a non-empty table sanitize_column_names maps each label, in   *)
(* place and in order, to its transliteration with spaces turned into      *)
(* underscores, every other non-word character removed, in lower case: the *)
(* labels are made of a-z, 0-9 and _ only, and the number and order of the *)
(* columns and all row values are as they were.                            *)
(***************************************************************************)
C19_SanitizeLabels ==
    Sanitized =>
        /\ Len(dataframe.columns) = Len(main_df.columns)
        /\ dataframe.rows = main_df.rows
        /\ \A i \in DOMAIN main_df.columns :
              /\ dataframe.columns[i] = StrLabel(C19_Expected(main_df.columns[i]))
              /\ Range(dataframe.columns[i].s)
                    \subseteq Range(LowerCase) \cup Range(Digits) \cup {"_"}

C19_Witness ==
    /\ Sanitized /\ pc = "done"
    /\ Len(main_df.rows) = 2
    /\ main_df.columns = <<StrLabel(S_Acao), StrLabel(S_nbsp_ss1)>>
    /\ dataframe.columns = <<StrLabel(<<"a","c","a","o">>), StrLabel(<<"_","s","s","_","1">>)>>

\* the job of the brokerage note: the header zone yields NoteHeader, the main
\* zone NoteMain, every header fix is on (the default), and start is over
NoteJob ==
    /\ job = "table" /\ Returned /\ AfterExtraction
    /\ \A z \in Zones : configs.fix[z]
    /\ \E i \in DetectionsOf("header") : detections[i].tables = <<NoteHeader>>
    /\ \E i \in DetectionsOf("main") : detections[i].tables = <<NoteMain>>

\* the appends to the main table
MainAppends == {i \in DOMAIN sink : sink[i].table_name = ExpectedMainName}

(***************************************************************************)
(* C20.  Original statement: in the job of the brokerage note the main     *)
(* zone is persisted as a single row with the columns papel, qtd, cliente, *)
(* conta, insertion_date and the values PETR4, 100, Joao, 123, today.      *)
(***************************************************************************)
C20_NoteMainFiveColumns ==
    NoteJob =>
        /\ ret = "True" => MainAppends # {}
        /\ \A i \in MainAppends :
              sink[i].df =
                DF(<<StrLabel(Lower(S_Papel)), StrLabel(Lower(S_Qtd)),
                     StrLabel(Lower(S_Cliente)), StrLabel(Lower(S_Conta)),
                     StrLabel(S_insertion_date)>>,
                   << <<S_PETR4, S_100, S_Joao, S_123, Today>> >>)

(***************************************************************************)
(* C20, amended: in the job of the brokerage note, with the default        *)
(* header-fix settings, the first column of each detected table is removed *)
(* with its header row, so the main zone is persisted as a single row with *)
(* the columns qtd, conta, insertion_date and the values 100, 123, today.  *)
(***************************************************************************)
C20_NoteMainPersisted ==
    NoteJob =>
        /\ ret = "True" => MainAppends # {}
        /\ \A i \in MainAppends :
              sink[i].df =
                DF(<<StrLabel(Lower(S_Qtd)), StrLabel(Lower(S_Conta)),
                     StrLabel(S_insertion_date)>>,
                   << <<S_100, S_123, Today>> >>)

C20_Witness ==
    /\ NoteJob /\ ret = "True"
    /\ Cardinality(MainAppends) = 1
    /\ small_df.none

\* a lone get_table_data call whose detection returned several fragments
SeveralFragments ==
    /\ job = "get_table_data" /\ Returned
    /\ detections # <<>> /\ Len(detections[1].tables) >= 2

\* the fragments of that call, each after its own header fix when it is on
FixedFragments ==
    LET frags == detections[1].tables
    IN  [i \in DOMAIN frags |-> IF configs.fix["main"] THEN fix_header(frags[i]) ELSE frags[i]]

RECURSIVE SumTo(_, _)
SumTo(lens, i) == IF i = 0 THEN 0 ELSE lens[i] + SumTo(lens, i - 1)

\* row r of fragment i sits in the result after the rows of fragments 1..i-1,
\* each of its cells under the column that carries the cell's label
RowsInPageOrder(fixed) ==
    LET lens == [i \in DOMAIN fixed |-> Len(fixed[i].rows)]
    IN  /\ Len(dataframe.rows) = SumTo(lens, Len(fixed))
        /\ \A i \in DOMAIN fixed : \A r \in DOMAIN fixed[i].rows :
              LET row == dataframe.rows[SumTo(lens, i - 1) + r]
              IN  IF dataframe.columns = fixed[i].columns
                  THEN row = fixed[i].rows[r]
                  ELSE \A k \in DOMAIN fixed[i].columns :
                          \E c \in DOMAIN dataframe.columns :
                              /\ dataframe.columns[c] = fixed[i].columns[k]
                              /\ row[c] = fixed[i].rows[r][k]

(***************************************************************************)
(* C21.  Original statement: when detection yields several fragments,      *)
(* get_table_data returns their concatenation in page order, each fragment *)
(* header-fixed on its own when the fix is on, so that each fragment's     *)
(* first row is removed and the row count is the sum over the fragments.   *)
(***************************************************************************)
C21_EachFirstRowRemoved ==
    SeveralFragments =>
        LET frags == detections[1].tables
            lens == [i \in DOMAIN frags |->
                        Len(frags[i].rows) - (IF configs.fix["main"] THEN 1 ELSE 0)]
        IN  /\ ~dataframe.none
            /\ Len(dataframe.rows) = SumTo(lens, Len(frags))
            /\ RowsInPageOrder(FixedFragments)

(***************************************************************************)
(* C21, amended: when detection yields several fragments, get_table_data   *)
(* header-fixes each fragment on its own (when the fix is on) and stacks   *)
(* the fixed fragments in page order over the union of their columns; a    *)
(* fragment of at least 2 rows loses its first row, a fragment of fewer    *)
(* rows is kept whole, and the row count is the sum of the fixed           *)
(* fragments' row counts.  When the fixed fragments do not all have the    *)
(* same labels and one of them has a repeated label, the concatenation     *)
(* raises and the result is absent.                                        *)
(***************************************************************************)
C21_FixedThenStacked ==
    SeveralFragments =>
        LET fixed == FixedFragments
            frags == detections[1].tables
            unalignable ==
                /\ \E i, j \in DOMAIN fixed : fixed[i].columns # fixed[j].columns
                /\ \E i \in DOMAIN fixed : HasDuplicates(fixed[i].columns)
        IN  /\ \A i \in DOMAIN frags :
                  Len(fixed[i].rows) =
                      IF configs.fix["main"] /\ Len(frags[i].rows) >= 2
                      THEN Len(frags[i].rows) - 1 ELSE Len(frags[i].rows)
            /\ dataframe.none <=> unalignable
            /\ ~dataframe.none => RowsInPageOrder(fixed)

C21_Witness ==
    /\ SeveralFragments /\ configs.fix["main"]
    /\ detections[1].tables = <<LoneFragments[1], LoneFragments[4]>>
    /\ dataframe = DF(<<StrLabel(S_Qt)>>, << <<S_y1>>, <<S_y2>>, <<S_y2>> >>)

C21_WitnessOneRow ==
    /\ SeveralFragments /\ configs.fix["main"]
    /\ detections[1].tables = <<LoneFragments[2], LoneFragments[1]>>
    /\ Len(dataframe.rows) = 2 /\ Len(dataframe.columns) = 3

\* a lone get_table_data call that reached the detection call
DetectionCalled == job = "get_table_data" /\ Returned /\ detections # <<>>

(***************************************************************************)
(* C25.  The keyword arguments get_table_data passes to the detection call *)
(* are those of the second construction: table_areas is attached exactly   *)
(* when the areas argument is not None, columns exactly when the columns   *)
(* argument is not None, whatever the flavor (lattice too) and for empty   *)
(* lists too; the first, flavor-dependent construction decides nothing.    *)
(***************************************************************************)
C25_SecondConstructionDecides ==
    DetectionCalled =>
        LET args == detections[1].args
            areas == configs.areas["main"]
            columns == configs.columns["main"]
        IN  /\ args.flavor = configs.flavor
            /\ args.table_areas = (IF areas = "None" THEN "unset" ELSE areas)
            /\ args.columns = (IF columns = "None" THEN "unset" ELSE columns)

C25_Witness ==
    /\ DetectionCalled
    /\ configs.flavor = "lattice"
    /\ configs.columns["main"] = "list" /\ configs.areas["main"] = "empty"
    /\ detections[1].args = [flavor |-> "lattice", columns |-> "list", table_areas |-> "empty"]
    /\ detections[1].args #
          camelot_args_first(configs.areas["main"], configs.columns["main"], configs.flavor)

\* the characters of a sanitized label: [a-z0-9_]
SanitizedChars == Range(LowerCase) \cup Range(Digits) \cup {"_"}

\* every label of df is a str of such characters
LabelsSanitized(df) ==
    \A c \in DOMAIN df.columns :
        ~df.columns[c].int /\ Range(df.columns[c].s) \subseteq SanitizedChars

\* the appends to the small table
SmallAppends == {i \in DOMAIN sink : sink[i].table_name = ExpectedSmallName}

(***************************************************************************)
(* C23.  Original statement: every table the table job appends, for the    *)
(* main zone and for the small zone and under every configuration, has     *)
(* only sanitized column labels (strs over a-z, 0-9 and _) when it is      *)
(* appended.                                                               *)
(***************************************************************************)
C23_AllAppendsSanitized ==
    job = "table" => \A i \in DOMAIN sink : LabelsSanitized(sink[i].df)

(***************************************************************************)
(* C23, amended: every table the table job appends for the main zone has   *)
(* only sanitized column labels, and so has every table it appends for the *)
(* small zone unless the configuration sets small_sanitize to false; in    *)
(* that configuration the small table is appended as merged, with the      *)
(* labels the merge gave it.                                               *)
(***************************************************************************)
C23_SanitizedUnlessSwitchedOff ==
    job = "table" =>
        /\ DOMAIN sink = MainAppends \cup SmallAppends
        /\ \A i \in MainAppends : LabelsSanitized(sink[i].df)
        /\ \A i \in SmallAppends :
              IF configs.small_sanitize
              THEN LabelsSanitized(sink[i].df)
              ELSE pc \in {"return", "finally", "done"} => sink[i].df = small_df

C23_Witness ==
    /\ job = "table" /\ Returned /\ configs.small_sanitize
    /\ \E i \in SmallAppends :
          sink[i].df.columns = <<StrLabel(<<"q","t">>), StrLabel(S_insertion_date)>>
    /\ MainAppends # {}

C23_WitnessSwitchedOff ==
    /\ job = "table" /\ Returned /\ ~configs.small_sanitize
    /\ \E i \in SmallAppends : ~LabelsSanitized(sink[i].df)

\* the small append of the table job raised after the main append was made
SmallFailedAfterMain ==
    /\ job = "table"
    /\ "persist_main" \in Range(trace) /\ "persist_small" \in Range(trace)
    /\ db_failures > 0

(***************************************************************************)
(* C24.  When the main table has been appended and the small-zone path     *)
(* then fails, start returns False and the main append stays: from the     *)
(* failure on, the sink holds the main table as it was appended and        *)
(* nothing else.                                                           *)
(***************************************************************************)
C24_MainAppendKept ==
    SmallFailedAfterMain =>
        /\ pc \in {"except", "finally", "done"}
        /\ Returned => ret = "False"
        /\ Len(sink) = 1
        /\ sink[1] = [table_name |-> ExpectedMainName, df |-> main_df]
        /\ SmallAppends = {}

C24_Witness ==
    /\ SmallFailedAfterMain /\ Returned /\ ret = "False"
    /\ MainAppends = {1}
    /\ Present(small_df)

\* the text job extracted a text without an operations section
OperationsNotFound ==
    /\ job = "text"
    /\ "extract" \in Range(trace)
    /\ text_lines = PatternNotFound

(***************************************************************************)
(* C28.  When the operations section is not found in the extracted text,   *)
(* the text job appends nothing to pdf_text: the not-found marker becomes  *)
(* the header of a table without rows, no database call is made, nothing   *)
(* is raised, and start returns True.                                      *)
(***************************************************************************)
C28_MarkerNeverPersisted ==
    OperationsNotFound =>
        /\ sink = <<>>
        /\ engines.created = 0 /\ db_failures = 0
        /\ exc = "none" /\ pc # "except"
        /\ pc \in {"send", "return", "done"} =>
              /\ dataframe.rows = <<>>
              /\ dataframe.columns = [i \in 1..3 |-> StrLabel(PatternNotFound[1][i])]
        /\ Returned => ret = "True"

C28_Witness ==
    /\ OperationsNotFound /\ Returned /\ ret = "True"
    /\ "persist" \in Range(trace)
    /\ sink = <<>>

\* how often x occurs in seq
Count(seq, x) == Cardinality({i \in DOMAIN seq : seq[i] = x})

\* notification keys with the key the extractors are to be given
C22_Examples ==
    { << <<"%","2","B","(">>,             <<" ","(">> >>,
      << <<"+","%","2","8">>,             <<" ","(">> >>,
      << <<"+","+","(","+">>,             <<"+"," ","(","+">> >>,
      << <<"a","%","2","0","b","%","2">>, <<"a"," ","b","%","2">> >> }

(***************************************************************************)
(* C22.  The key every extractor is constructed with is the unquoted       *)
(* notification key with each "+" that stands immediately before "("       *)
(* replaced by a space; every other character, every other "+" included,   *)
(* is the one of the unquoted key at the same place.                       *)
(***************************************************************************)
C22_OnlyPlusBeforeParenReplaced ==
    \A n \in DOMAIN handed :
        LET original == messages[handed[n].msg].key
            unescaped == unquote(original)
            key == handed[n].key
        IN  /\ Len(key) = Len(unescaped)
            /\ \A j \in DOMAIN key :
                  key[j] = IF /\ unescaped[j] = "+" /\ j < Len(unescaped)
                              /\ unescaped[j + 1] = "("
                           THEN " " ELSE unescaped[j]
            /\ <<original, key>> \in C22_Examples

C22_Witness ==
    /\ lpc = "done"
    /\ \E n \in DOMAIN handed :
          /\ handed[n].extractor = "table"
          /\ messages[handed[n].msg].key = <<"+","+","(","+">>
          /\ handed[n].key = <<"+"," ","(","+">>
    /\ \E n \in DOMAIN handed :
          /\ messages[handed[n].msg].key = <<"%","2","B","(">>
          /\ handed[n].key = <<" ","(">>

\* message m carries a receipt handle and a well-formed S3 record
WellFormed(m) == messages[m].handle /\ messages[m].body = "record"

\* seq never steps down
Ascending(seq) == \A i \in DOMAIN seq : i > 1 => seq[i - 1] <= seq[i]

(***************************************************************************)
(* C26.  In one check_messages pass the messages are taken one at a time   *)
(* in received order, no message is deleted more than once, every message  *)
(* with a receipt handle and a well-formed S3 record that the loop has     *)
(* passed is deleted exactly once, whatever its extractors did, and the    *)
(* pass ends only after the last message.                                  *)
(***************************************************************************)
C26_EachDeletedOnce ==
    /\ Ascending(deleted)
    /\ Ascending([n \in DOMAIN handed |-> handed[n].msg])
    /\ \A m \in DOMAIN messages :
          /\ Count(deleted, m) <= 1
          /\ (m < cursor /\ WellFormed(m)) => Count(deleted, m) = 1
          /\ m >= cursor => Count(deleted, m) = 0
    /\ (lpc = "done" /\ messages # <<>>) => cursor = Len(messages) + 1

(***************************************************************************)
(* C27.  Whatever AWSS3() calls came before, every call that returns       *)
(* returns an instance with its credentials and its S3 client set, and     *)
(* the class never retains an instance without a client.                   *)
(***************************************************************************)
C27_ReturnedInstanceHasClient ==
    /\ \A n \in DOMAIN attempts :
          attempts[n].result = "returned" =>
              /\ ~attempts[n].instance.none
              /\ attempts[n].instance.access_key /\ attempts[n].instance.secret_key
              /\ attempts[n].instance.s3
    /\ instance.none \/ instance.s3

====
